---- MODULE Spec2Model ----
(***************************************************************************)
(* The billing-period workflow of pave-billing-api                         *)
(* (bills/workflow/workflow.go) as a state machine, with the Money value   *)
(* type (bills/money) it computes with.                                    *)
(*                                                                         *)
(* One state of the model is one point at which the workflow coroutine is  *)
(* blocked: in selector.Select (pc = "select"), in the Get of the notifier *)
(* activity (pc = "notify"), or after BillingPeriodWorkflow has returned   *)
(* (pc = "done").  The callbacks the selector runs contain no other        *)
(* blocking call, so each of them is one step.                             *)
(***************************************************************************)
EXTENDS Integers, Sequences, FiniteSets, TLC

VARIABLES
    bill,            \* the *Bill the workflow owns (workflow.go:15)
    addItemChan,     \* pending signals of SignalAddLineItem, oldest first
    closeChan,       \* pending signals of SignalCloseBill, oldest first
    clock,           \* the substrate's clock, workflow.Now(ctx)
    timerDeadline,   \* the instant billingPeriodTimeout becomes ready
    pc,              \* where the workflow coroutine is blocked
    attempts,        \* attempts of SendBillClosedEmail made so far
    notifyCalls,     \* calls of workflow.ExecuteActivity made so far
    activityErr,     \* TRUE when the last activity call ended in an error
    wfResult,        \* "running", or what BillingPeriodWorkflow returned
    itemsSent,       \* add-item signals sent so far
    closesSent,      \* close signals sent so far
    closingHandled,  \* TRUE once the selector ran the close or timer callback
    timerRun,        \* one arming of the period-end timer, and its replay
    machines,        \* the dispatcher's view: the workflows the substrate holds
    clientOpen,      \* FALSE once Service.Shutdown has closed the client
    call,            \* the dispatcher call in progress, if any
    reply,           \* what the last finished dispatcher call returned
    callsMade,       \* how many dispatcher calls have begun
    moneyRun         \* one computation with Money values: inputs and results

\* The state of one workflow, of the timer computation, of the dispatcher, and
\* of a computation with Money values.
wfVars == <<bill, addItemChan, closeChan, clock, timerDeadline, pc, attempts,
            notifyCalls, activityErr, wfResult, itemsSent, closesSent,
            closingHandled>>
timerVars == <<timerRun>>
dispVars == <<machines, clientOpen, call, reply, callsMade>>
moneyVars == <<moneyRun>>

vars == <<wfVars, timerVars, dispVars, moneyVars>>

----------------------------------------------------------------------------
(* Bounds of the model.                                                    *)

MaxSignals == 3      \* signals (add-item and close) sent to one workflow
MaxClock == 2        \* the clock runs over 0..MaxClock

----------------------------------------------------------------------------
(* bills/money                                                             *)

USD == "USD"
GEL == "GEL"
Currencies == {USD, GEL}

\* config.Rates: USDToGEL = 2.7777 and GELToUSD = 0.3601, as integers over
\* RateScale.
RateScale == 10000
USDToGEL == 27777
GELToUSD == 3601

Money(cents, currency) == [cents |-> cents, Currency |-> currency]

\* decimal.Round(0): half away from zero, of the rational num / den (den > 0).
RoundHalfAwayFromZero(num, den) ==
    LET a == IF num < 0 THEN -num ELSE num
        q == a \div den
        r == a % den
        m == IF 2 * r >= den THEN q + 1 ELSE q
    IN  IF num < 0 THEN -m ELSE m

\* A variant of MulRateToCents that cuts the product off instead of rounding
\* it.
MulRateToCents_truncates(cents, rate) ==
    LET a == IF cents < 0 THEN -cents ELSE cents
        whole == (a \div RateScale) * rate
        part == ((a % RateScale) * rate) \div RateScale
    IN  IF cents < 0 THEN -(whole + part) ELSE whole + part

\* decimalToCents(centsToDecimal(cents).Mul(rate)): cents * rate / RateScale,
\* rounded once.  The whole multiples of RateScale are exact, so only the
\* remainder is rounded.
MulRateToCents(cents, rate) ==
    LET a == IF cents < 0 THEN -cents ELSE cents
        whole == (a \div RateScale) * rate
        part == RoundHalfAwayFromZero((a % RateScale) * rate, RateScale)
    IN  IF cents < 0 THEN -(whole + part) ELSE whole + part

\* Money.Add: an error when the currencies differ, else the sum of the cents.
Add(m, other) ==
    IF m.Currency # other.Currency
    THEN [err |-> TRUE, val |-> Money(0, "")]
    ELSE [err |-> FALSE, val |-> Money(m.cents + other.cents, m.Currency)]

\* config.Rates (cfg.go:10)
Rates == [USDToGEL |-> USDToGEL, GELToUSD |-> GELToUSD]

\* Money.ConvertTo (part_001:66-83)
ConvertTo(m, targetCurrency, rates) ==
    IF m.Currency = targetCurrency
    THEN [err |-> FALSE, val |-> m]
    ELSE IF m.Currency = USD /\ targetCurrency = GEL
    THEN [err |-> FALSE,
          val |-> Money(MulRateToCents(m.cents, rates.USDToGEL), GEL)]
    ELSE IF m.Currency = GEL /\ targetCurrency = USD
    THEN [err |-> FALSE,
          val |-> Money(MulRateToCents(m.cents, rates.GELToUSD), USD)]
    ELSE [err |-> TRUE, val |-> Money(0, "")]

\* Money.validate
validate(m) == m.Currency \in Currencies /\ m.cents >= 0

----------------------------------------------------------------------------
(* bills/workflow: types                                                   *)

BillStatusOpen == "OPEN"
BillStatusClosed == "CLOSED"

\* A *time.Time: <<>> is nil, <<t>> points to t.
NilTime == <<>>
TimePtr(t) == <<t>>

\* The values the signals carry in this model.
ItemCents == {0, 1000}
BillIDs == {"bill-123"}
CustomerIDs == {456}

LineItem(id, amount, createdAt) ==
    [ID |-> id, Amount |-> amount, CreatedAt |-> createdAt]

CloseBillSignal(closedAt) == [ClosedAt |-> closedAt]

\* A variant of NewBill whose zero total is in USD whatever the declared
\* currency.
NewBill_totalInUSD(billID, customerID, currency, now) ==
    [ID |-> billID,
     CustomerID |-> customerID,
     Currency |-> currency,
     Status |-> BillStatusOpen,
     CreatedAt |-> now,
     ClosedAt |-> NilTime,
     LineItems |-> <<>>,
     Total |-> Money(0, USD)]

\* workflow.go:15-23
NewBill(billID, customerID, currency, now) ==
    [ID |-> billID,
     CustomerID |-> customerID,
     Currency |-> currency,
     Status |-> BillStatusOpen,
     CreatedAt |-> now,
     ClosedAt |-> NilTime,
     LineItems |-> <<>>,
     Total |-> Money(0, currency)]

----------------------------------------------------------------------------
(* bills/workflow: the callbacks of the selector, as functions of the bill *)

\* A variant of addItemHandler that closes the bill when the addition fails.
addItemHandler_closeOnAddError(b, lineItem) ==
    IF b.Status = BillStatusClosed
    THEN b
    ELSE LET appended == [b EXCEPT !.LineItems = Append(@, lineItem)]
             sum == Add(b.Total, lineItem.Amount)
         IN  IF sum.err
             THEN [appended EXCEPT !.Status = BillStatusClosed]
             ELSE [appended EXCEPT !.Total = sum.val]

\* A variant of addItemHandler that puts the new item first.
addItemHandler_prepend(b, lineItem) ==
    IF b.Status = BillStatusClosed
    THEN b
    ELSE LET appended == [b EXCEPT !.LineItems = <<lineItem>> \o @]
             sum == Add(b.Total, lineItem.Amount)
         IN  IF sum.err THEN appended ELSE [appended EXCEPT !.Total = sum.val]

\* A variant of addItemHandler that drops an item whose id is already on the
\* bill.
addItemHandler_skipDuplicateID(b, lineItem) ==
    IF \/ b.Status = BillStatusClosed
       \/ \E i \in 1..Len(b.LineItems) : b.LineItems[i].ID = lineItem.ID
    THEN b
    ELSE LET appended == [b EXCEPT !.LineItems = Append(@, lineItem)]
             sum == Add(b.Total, lineItem.Amount)
         IN  IF sum.err THEN appended ELSE [appended EXCEPT !.Total = sum.val]

\* A variant of addItemHandler that consumes the event and leaves the bill
\* as it was, OPEN or not.
addItemHandler_ignoresItem(b, lineItem) == b

\* workflow.go:40-62, the callback of addItemChan: the bill it leaves.
addItemHandler(b, lineItem) ==
    IF b.Status = BillStatusClosed
    THEN b
    ELSE LET appended == [b EXCEPT !.LineItems = Append(@, lineItem)]
             sum == Add(b.Total, lineItem.Amount)
         IN  IF sum.err THEN appended ELSE [appended EXCEPT !.Total = sum.val]

\* A variant of closeHandler that returns without calling the notifier.
closeHandler_noNotification(b, signal) ==
    IF b.Status = BillStatusClosed
    THEN [bill |-> b, notify |-> FALSE]
    ELSE [bill |-> [b EXCEPT !.Status = BillStatusClosed,
                             !.ClosedAt = TimePtr(signal.ClosedAt)],
          notify |-> FALSE]

\* A variant of closeHandler that records closed-at and notifies, and leaves
\* the status as it was.
closeHandler_statusNotSet(b, signal) ==
    IF b.Status = BillStatusClosed
    THEN [bill |-> b, notify |-> FALSE]
    ELSE [bill |-> [b EXCEPT !.ClosedAt = TimePtr(signal.ClosedAt)],
          notify |-> TRUE]

\* A variant of closeHandler that records the bill's creation time as
\* closed-at instead of the timestamp the signal carries.
closeHandler_closedAtIsCreatedAt(b, signal) ==
    IF b.Status = BillStatusClosed
    THEN [bill |-> b, notify |-> FALSE]
    ELSE [bill |-> [b EXCEPT !.Status = BillStatusClosed,
                             !.ClosedAt = TimePtr(b.CreatedAt)],
          notify |-> TRUE]

\* workflow.go:64-78, the callback of closeChan: the bill it leaves, and
\* whether it calls sendEmailNotification.
closeHandler(b, signal) ==
    IF b.Status = BillStatusClosed
    THEN [bill |-> b, notify |-> FALSE]
    ELSE [bill |-> [b EXCEPT !.Status = BillStatusClosed,
                             !.ClosedAt = TimePtr(signal.ClosedAt)],
          notify |-> TRUE]

\* A variant of timerHandler that closes the bill without recording closed-at.
timerHandler_closedAtNotSet(b, now) ==
    IF b.Status = BillStatusClosed
    THEN [bill |-> b, notify |-> FALSE]
    ELSE [bill |-> [b EXCEPT !.Status = BillStatusClosed], notify |-> TRUE]

\* A variant of timerHandler with its test inverted: it returns when the bill
\* is still OPEN.
timerHandler_returnsWhenOpen(b, now) ==
    IF b.Status # BillStatusClosed
    THEN [bill |-> b, notify |-> FALSE]
    ELSE [bill |-> [b EXCEPT !.Status = BillStatusClosed,
                             !.ClosedAt = TimePtr(now)],
          notify |-> TRUE]

\* workflow.go:80-93, the callback of billingPeriodTimeout.
timerHandler(b, now) ==
    IF b.Status = BillStatusClosed
    THEN [bill |-> b, notify |-> FALSE]
    ELSE [bill |-> [b EXCEPT !.Status = BillStatusClosed,
                             !.ClosedAt = TimePtr(now)],
          notify |-> TRUE]

\* workflow.go:25-27, the handler of the query QueryGetBill: it returns the
\* bill and assigns nothing.  The substrate runs it while the coroutine is
\* blocked in Select or in the notifier's Get, or after it has returned.
QueryGetBill(b) == b

\* sendEmailNotification's retry policy (workflow.go:114).
MaximumAttempts == 5

\* A variant of sendEmailNotification that re-opens the bill when the
\* notifier failed.
sendEmailNotification_reopenOnError(b, err) ==
    IF err
    THEN [b EXCEPT !.Status = BillStatusOpen, !.ClosedAt = NilTime]
    ELSE b

\* workflow.go:105-132: the bill when sendEmailNotification returns, err being
\* the result of the activity's Get.  An error is logged and nothing else.
sendEmailNotification(b, err) == b

\* A variant of the workflow's return that hands the notifier's error on.
BillingPeriodWorkflowReturn_propagate(err) ==
    IF err THEN "failed" ELSE "completed"

\* workflow.go:102: the workflow returns nil, whatever the notifier returned.
BillingPeriodWorkflowReturn(err) == "completed"

\* workflow.go:97-99: after Select, the loop ends when the bill is closed.
AfterSelect(b) == IF b.Status = BillStatusClosed THEN "done" ELSE "select"

----------------------------------------------------------------------------
(* The workflow and its surroundings                                       *)

\* The timer computation, the computation with Money values and the
\* dispatcher when they are not the subject.
NoMoneyRun == [op |-> "none", step |-> 0, arg |-> <<>>, res |-> <<>>]
NoTimerRun ==
    [phase |-> "none", created |-> 0, wall |-> 0, deadline |-> 0,
     replayWall |-> 0, replayDeadline |-> 0]
NoCall ==
    [op |-> "none", step |-> "", billID |-> 0, customerID |-> 0,
     currency |-> "", amount |-> "", status |-> "", fetchedStatus |-> "",
     lineItem |-> <<>>, signalled |-> FALSE, before |-> 0, started |-> <<>>,
     pending |-> <<>>, queried |-> <<>>, bills |-> <<>>]
NoReply == [call |-> NoCall, err |-> "", bill |-> <<>>, seen |-> ""]
DispatcherIdle ==
    /\ machines = <<>>
    /\ clientOpen = TRUE
    /\ call = NoCall
    /\ reply = NoReply
    /\ callsMade = 0

\* One workflow, not stepping, while the timer computation or the dispatcher
\* is the subject.
WorkflowParked ==
    /\ clock = 0
    /\ bill = NewBill("bill-123", 456, USD, 0)
    /\ timerDeadline = MaxClock
    /\ addItemChan = <<>>
    /\ closeChan = <<>>
    /\ pc = "select"
    /\ attempts = 0
    /\ notifyCalls = 0
    /\ activityErr = FALSE
    /\ wfResult = "running"
    /\ itemsSent = 0
    /\ closesSent = 0
    /\ closingHandled = FALSE

\* BillingPeriodWorkflow up to its first Select (workflow.go:12-38): the bill
\* is created at the substrate's clock, and the timer is armed for a later
\* instant, the last one of the model.
Init ==
    /\ clock = 0
    /\ \E billID \in BillIDs, customerID \in CustomerIDs, currency \in Currencies :
           bill = NewBill(billID, customerID, currency, 0)
    /\ timerDeadline = MaxClock
    /\ addItemChan = <<>>
    /\ closeChan = <<>>
    /\ pc = "select"
    /\ attempts = 0
    /\ notifyCalls = 0
    /\ activityErr = FALSE
    /\ wfResult = "running"
    /\ itemsSent = 0
    /\ closesSent = 0
    /\ closingHandled = FALSE
    /\ timerRun = NoTimerRun
    /\ moneyRun = NoMoneyRun
    /\ DispatcherIdle

\* A client signals SignalAddLineItem with a valid Money of either currency;
\* the substrate appends it to the channel.  The item id is fresh and
\* created-at is the time of the call.
SignalAddLineItem ==
    /\ wfResult = "running"
    /\ itemsSent + closesSent < MaxSignals
    /\ \E cents \in ItemCents, currency \in Currencies :
           /\ validate(Money(cents, currency))
           /\ addItemChan' = Append(addItemChan,
                  LineItem(itemsSent + 1, Money(cents, currency), clock))
    /\ itemsSent' = itemsSent + 1
    /\ UNCHANGED <<bill, closeChan, clock, timerDeadline, pc, attempts,
                   notifyCalls, activityErr, wfResult, closesSent,
                   closingHandled>>
    /\ UNCHANGED <<timerVars, dispVars, moneyVars>>

\* A client signals SignalCloseBill, closed-at being the time of the call.
SignalCloseBill ==
    /\ wfResult = "running"
    /\ itemsSent + closesSent < MaxSignals
    /\ closeChan' = Append(closeChan, CloseBillSignal(clock))
    /\ closesSent' = closesSent + 1
    /\ UNCHANGED <<bill, addItemChan, clock, timerDeadline, pc, attempts,
                   notifyCalls, activityErr, wfResult, itemsSent,
                   closingHandled>>
    /\ UNCHANGED <<timerVars, dispVars, moneyVars>>

\* Time passes.
Tick ==
    /\ wfResult = "running"
    /\ clock < MaxClock
    /\ clock' = clock + 1
    /\ UNCHANGED <<bill, addItemChan, closeChan, timerDeadline, pc, attempts,
                   notifyCalls, activityErr, wfResult, itemsSent, closesSent,
                   closingHandled>>
    /\ UNCHANGED <<timerVars, dispVars, moneyVars>>

\* Select runs the callback of addItemChan (workflow.go:40-62, 95-99).
HandleAddItem ==
    /\ pc = "select"
    /\ addItemChan # <<>>
    /\ bill' = addItemHandler(bill, Head(addItemChan))
    /\ addItemChan' = Tail(addItemChan)
    /\ pc' = AfterSelect(bill')
    /\ wfResult' = IF pc' = "done" THEN BillingPeriodWorkflowReturn(FALSE)
                   ELSE wfResult
    /\ UNCHANGED <<closeChan, clock, timerDeadline, attempts, notifyCalls,
                   activityErr, itemsSent, closesSent, closingHandled>>
    /\ UNCHANGED <<timerVars, dispVars, moneyVars>>

\* What follows a close or timer callback that left r: either the coroutine
\* blocks in the notifier activity's Get, or the callback has returned and the
\* loop tests the status.
AfterClosing(r) ==
    /\ bill' = r.bill
    /\ closingHandled' = TRUE
    /\ IF r.notify
       THEN /\ pc' = "notify"
            /\ notifyCalls' = notifyCalls + 1
            /\ attempts' = 0
            /\ wfResult' = wfResult
       ELSE /\ pc' = AfterSelect(r.bill)
            /\ wfResult' = IF pc' = "done"
                           THEN BillingPeriodWorkflowReturn(FALSE)
                           ELSE wfResult
            /\ UNCHANGED <<notifyCalls, attempts>>

\* Select runs the callback of closeChan (workflow.go:64-78).
HandleClose ==
    /\ pc = "select"
    /\ closeChan # <<>>
    /\ AfterClosing(closeHandler(bill, Head(closeChan)))
    /\ closeChan' = Tail(closeChan)
    /\ UNCHANGED <<addItemChan, clock, timerDeadline, activityErr, itemsSent,
                   closesSent>>
    /\ UNCHANGED <<timerVars, dispVars, moneyVars>>

\* Select runs the callback of the timer, which is ready from its deadline on
\* (workflow.go:80-93).
HandleTimer ==
    /\ pc = "select"
    /\ clock >= timerDeadline
    /\ AfterClosing(timerHandler(bill, clock))
    /\ UNCHANGED <<addItemChan, closeChan, clock, timerDeadline, activityErr,
                   itemsSent, closesSent>>
    /\ UNCHANGED <<timerVars, dispVars, moneyVars>>

\* One attempt of SendBillClosedEmail ends.  A success, or the failure of the
\* last attempt the retry policy allows, ends the activity's Get
\* (workflow.go:124); sendEmailNotification and the callback return, and the
\* loop tests the status (workflow.go:97-102).
ActivityAttempt ==
    /\ pc = "notify"
    /\ attempts < MaximumAttempts
    /\ attempts' = attempts + 1
    /\ \E ok \in BOOLEAN :
        IF ok \/ attempts' = MaximumAttempts
        THEN /\ activityErr' = ~ok
             /\ bill' = sendEmailNotification(bill, ~ok)
             /\ pc' = AfterSelect(bill')
             /\ wfResult' = IF pc' = "done"
                            THEN BillingPeriodWorkflowReturn(~ok)
                            ELSE wfResult
        ELSE UNCHANGED <<activityErr, bill, pc, wfResult>>
    /\ UNCHANGED <<addItemChan, closeChan, clock, timerDeadline, notifyCalls,
                   itemsSent, closesSent, closingHandled>>
    /\ UNCHANGED <<timerVars, dispVars, moneyVars>>

Next ==
    \/ SignalAddLineItem
    \/ SignalCloseBill
    \/ Tick
    \/ HandleAddItem
    \/ HandleClose
    \/ HandleTimer
    \/ ActivityAttempt

Spec == Init /\ [][Next]_vars

\* The workflow under the scheduling the substrate gives it: time passes, a
\* ready timer wakes the selector, and every attempt of the activity ends
\* (StartToCloseTimeout) with at most MaximumAttempts attempts.  Signals are
\* sent or not, as the clients please.
FairSpec ==
    /\ Spec
    /\ WF_vars(Tick)
    /\ WF_vars(HandleTimer)
    /\ WF_vars(ActivityAttempt)

-----------------------------------------------------------------------------
(* The period-end timer: calculateTimeUntilNextMonth (utils.go:5-18) and    *)
(* workflow.NewTimer (workflow.go:33)                                       *)

\* Instants are counted in ticks from 00:00 UTC of January 1 of BaseYear,
\* TicksPerDay of them in a day.  Bills are created in NumYears years.
BaseYear == 2023
NumYears == 2
TicksPerDay == 2

\* How far the worker's wall clock may be ahead of the substrate's clock when
\* the workflow function runs, and how much later a replay may run.
MaxSkew == 2
MaxReplayDelay == 2

Months == 1..12

IsLeap(y) == (y % 4 = 0 /\ y % 100 # 0) \/ y % 400 = 0

DaysInMonth(y, m) ==
    IF m = 2 THEN (IF IsLeap(y) THEN 29 ELSE 28)
    ELSE IF m \in {4, 6, 9, 11} THEN 30 ELSE 31

RECURSIVE DaysBeforeMonth(_, _)
DaysBeforeMonth(y, m) ==
    IF m = 1 THEN 0 ELSE DaysBeforeMonth(y, m - 1) + DaysInMonth(y, m - 1)

RECURSIVE DaysBeforeYear(_)
DaysBeforeYear(y) ==
    IF y <= BaseYear THEN 0
    ELSE DaysBeforeYear(y - 1) + DaysBeforeMonth(y - 1, 12) + DaysInMonth(y - 1, 12)

\* time.Date(year, month, day, 0, 0, 0, 0, time.UTC)
TimeDate(year, month, day) ==
    (DaysBeforeYear(year) + DaysBeforeMonth(year, month) + (day - 1)) * TicksPerDay

\* now.Date(): the year and the month the instant lies in.
Date(t) ==
    CHOOSE d \in [year : BaseYear..(BaseYear + NumYears + 1), month : Months] :
        /\ TimeDate(d.year, d.month, 1) <= t
        /\ t < TimeDate(d.year, d.month, 1) + DaysInMonth(d.year, d.month) * TicksPerDay

\* utils.go:5-18 with `now` the value time.Now().UTC() returned: the duration
\* from now to the first instant of the month after the one now lies in.
calculateTimeUntilNextMonth(now) ==
    LET currentYear == Date(now).year
        currentMonth == Date(now).month
        nextMonth == IF currentMonth + 1 > 12 THEN 1 ELSE currentMonth + 1
        nextYear == IF currentMonth + 1 > 12 THEN currentYear + 1 ELSE currentYear
        nextMonthStart == TimeDate(nextYear, nextMonth, 1)
    IN  nextMonthStart - now

\* workflow.NewTimer(ctx, d) (workflow.go:33): the timer fires d after the
\* substrate's current time, which is the bill's created-at (workflow.go:20).
NewTimer(created, d) == created + d

\* CreateBill starts the workflow with WorkflowExecutionTimeout:
\* time.Hour * 24 * 30 (part_003:69): the substrate ends an execution that
\* is still running that long after its start.
ExecutionTimeoutDays == 30
WorkflowExecutionTimeout == ExecutionTimeoutDays * TicksPerDay

\* The instants at which a bill may be created.
CreationInstants == 0..(TimeDate(BaseYear + NumYears, 1, 1) - 1)

TimerInit ==
    /\ WorkflowParked
    /\ DispatcherIdle
    /\ moneyRun = NoMoneyRun
    /\ \E created \in CreationInstants :
           timerRun = [NoTimerRun EXCEPT !.phase = "start", !.created = created]

\* The workflow function runs for the first time: the substrate's clock reads
\* created, the worker's wall clock reads wall.
ArmTimer ==
    /\ timerRun.phase = "start"
    /\ \E skew \in 0..MaxSkew :
           LET wall == timerRun.created + skew
           IN  timerRun' = [timerRun EXCEPT
                   !.phase = "armed",
                   !.wall = wall,
                   !.deadline = NewTimer(timerRun.created,
                                         calculateTimeUntilNextMonth(wall))]
    /\ UNCHANGED <<wfVars, dispVars, moneyVars>>

\* The workflow function runs again over the same history (a worker restart,
\* a query on an evicted execution) at a later wall-clock time.
ReplayArmTimer ==
    /\ timerRun.phase = "armed"
    /\ \E delay \in 0..MaxReplayDelay :
           LET wall == timerRun.wall + delay
           IN  timerRun' = [timerRun EXCEPT
                   !.phase = "replayed",
                   !.replayWall = wall,
                   !.replayDeadline = NewTimer(timerRun.created,
                                               calculateTimeUntilNextMonth(wall))]
    /\ UNCHANGED <<wfVars, dispVars, moneyVars>>

TimerNext ==
    \/ ArmTimer
    \/ ReplayArmTimer

TimerSpec == TimerInit /\ [][TimerNext]_vars

-----------------------------------------------------------------------------
(* The dispatcher: Service (part_003) over the workflows the substrate holds *)

\* How many bills are created and how many calls the dispatcher serves.
MaxBills == 2
MaxCalls == 3

\* Bill ids are the numbers of the workflows in the order they were started
\* (uuid.New() never repeats).  Customer id 0 is Go's zero value, what a
\* ListBills request without customer_id carries.
BillIDSpace == 1..MaxBills
DispCustomers == {1, 2}
ListCustomers == {0} \cup DispCustomers
RequestCurrencies == Currencies \cup {"EUR"}
RequestAmounts == {"10.00", "abc"}
StatusFilters == {"", BillStatusOpen, BillStatusClosed}

\* errs.Internal, errs.InvalidArgument, errs.NotFound (part_004)
ErrNone == ""
Internal == "internal"
InvalidArgument == "bad-request"
NotFound == "not-found"

\* decimal.NewFromString on the amounts a request carries (part_001:51-55):
\* the cents it parses to, or nothing when it does not parse.
DecimalCents(amount) == IF amount = "10.00" THEN <<1000>> ELSE <<>>

\* money.NewFromString (part_001:50-64)
NewFromString(amount, currency) ==
    IF DecimalCents(amount) = <<>>
    THEN [err |-> TRUE, val |-> Money(0, currency)]
    ELSE LET m == Money(DecimalCents(amount)[1], currency)
         IN  [err |-> ~validate(m), val |-> m]

\* A variant of CreateBillParams.Validate that accepts every currency.
CreateBillParamsValidate_acceptAll(currency) == ErrNone

\* CreateBillParams.Validate (cfg.go:61-67)
CreateBillParamsValidate(currency) ==
    IF currency # USD /\ currency # GEL THEN InvalidArgument ELSE ErrNone

\* AddLineItemParams.Validate (cfg.go:52-59)
AddLineItemParamsValidate(amount, currency) ==
    IF NewFromString(amount, currency).err THEN InvalidArgument ELSE ErrNone

\* The workflow ExecuteWorkflow starts (part_003:63-81, workflow.go:12-38).
StartedMachine(billID, customerID, currency) ==
    [lifecycle |-> "running",
     bill |-> NewBill(billID, customerID, currency, clock),
     addItemChan |-> <<>>,
     closeChan |-> <<>>,
     pc |-> "select"]

\* The workflow after a callback left bill b: blocked in the notifier's Get,
\* back in Select, or returned (workflow.go:95-102).
Settle(m, b, notify, err) ==
    LET pc2 == IF notify THEN "notify" ELSE AfterSelect(b)
    IN  [m EXCEPT !.bill = b,
                  !.pc = pc2,
                  !.lifecycle = IF pc2 = "done"
                                THEN BillingPeriodWorkflowReturn(err)
                                ELSE @]

\* A variant of getBill that answers not-found for a workflow that is not
\* running and tests the owner of a running one only.
getBill_notFoundWhenNotRunning(ms, open, billID, customerID) ==
    IF ~open
    THEN [err |-> Internal, bill |-> <<>>, seen |-> "unknown", queried |-> <<>>]
    ELSE IF billID \notin DOMAIN ms
    THEN [err |-> NotFound, bill |-> <<>>, seen |-> "absent", queried |-> <<>>]
    ELSE IF ms[billID].lifecycle # "running"
    THEN [err |-> NotFound, bill |-> <<>>, seen |-> ms[billID].lifecycle,
          queried |-> <<>>]
    ELSE IF ms[billID].bill.CustomerID # customerID
    THEN [err |-> NotFound, bill |-> <<>>, seen |-> "running",
          queried |-> <<ms[billID].bill>>]
    ELSE [err |-> ErrNone, bill |-> <<ms[billID].bill>>, seen |-> "running",
          queried |-> <<ms[billID].bill>>]

\* Service.getBill (part_003:178-220) over the workflows ms, the client being
\* open or closed: the error or the bill it returns, the lifecycle state
\* DescribeWorkflowExecution saw, and the bill QueryWorkflow returned.
getBill(ms, open, billID, customerID) ==
    IF ~open
    THEN [err |-> Internal, bill |-> <<>>, seen |-> "unknown", queried |-> <<>>]
    ELSE IF billID \notin DOMAIN ms
    THEN [err |-> NotFound, bill |-> <<>>, seen |-> "absent", queried |-> <<>>]
    ELSE IF ms[billID].lifecycle # "running"
    THEN [err |-> Internal, bill |-> <<>>, seen |-> ms[billID].lifecycle,
          queried |-> <<>>]
    ELSE IF ms[billID].bill.CustomerID # customerID
    THEN [err |-> NotFound, bill |-> <<>>, seen |-> "running",
          queried |-> <<ms[billID].bill>>]
    ELSE [err |-> ErrNone, bill |-> <<ms[billID].bill>>, seen |-> "running",
          queried |-> <<ms[billID].bill>>]

\* QueryWorkflow is answered once the workflow has taken in the signals the
\* substrate recorded before the query (part_003:194-204): a running workflow
\* waiting in Select has no signal left unhandled.
QueryReady(billID) ==
    (clientOpen /\ billID \in DOMAIN machines
        /\ machines[billID].lifecycle = "running"
        /\ machines[billID].pc = "select")
    => (machines[billID].addItemChan = <<>> /\ machines[billID].closeChan = <<>>)

\* SignalWorkflow returns an error when the client is closed or no running
\* workflow has the id (part_003:133-138, 159-165).
SignalWorkflowFails(billID) ==
    \/ ~clientOpen
    \/ billID \notin DOMAIN machines
    \/ machines[billID].lifecycle # "running"

\* A variant of the tests of the fetched status that lets a closed bill pass.
AlreadyClosed_never(b) == FALSE

\* part_003:104 and 152: the fetched snapshot is closed.
AlreadyClosed(b) == b.Status = BillStatusClosed

\* A variant of the status filter that keeps every bill.
StatusFilteredOut_never(status, b) == FALSE

\* part_003:255: the bill is dropped by the status filter.
StatusFilteredOut(status, b) == status # "" /\ b.Status # status

\* part_003:226-237: the ids ListWorkflow returns, those of the workflows of
\* every lifecycle state whose CustomerID attribute is the one asked for, if
\* one is asked for.
RECURSIVE ListWorkflow(_, _, _)
ListWorkflow(ms, customerID, from) ==
    IF from > Len(ms) THEN <<>>
    ELSE (IF customerID = 0 \/ ms[from].bill.CustomerID = customerID
          THEN <<from>> ELSE <<>>) \o ListWorkflow(ms, customerID, from + 1)

\* What a call that ends returns.
Reply(c, err, b, seen) == [call |-> c, err |-> err, bill |-> b, seen |-> seen]

\* A request arrives, the response to the one before having been delivered.
BeginCall ==
    /\ call = NoCall
    /\ callsMade < MaxCalls
    /\ callsMade' = callsMade + 1

\* Service.GetBill (part_003:173-175)
GetBill ==
    /\ BeginCall
    /\ \E billID \in BillIDSpace, customerID \in DispCustomers :
           LET c == [NoCall EXCEPT !.op = "GetBill", !.billID = billID,
                                   !.customerID = customerID]
               r == getBill(machines, clientOpen, billID, customerID)
           IN  /\ QueryReady(billID)
               /\ reply' = Reply(c, r.err, r.bill, r.seen)
    /\ UNCHANGED <<machines, clientOpen, call, wfVars, timerVars, moneyVars>>

\* Service.CreateBill up to ExecuteWorkflow (part_003:57-86)
CreateBillStart ==
    /\ BeginCall
    /\ \E customerID \in DispCustomers, currency \in RequestCurrencies :
           LET c == [NoCall EXCEPT !.op = "CreateBill",
                                   !.customerID = customerID,
                                   !.currency = currency,
                                   !.before = Len(machines)]
               id == Len(machines) + 1
           IN  IF CreateBillParamsValidate(currency) # ErrNone
               THEN /\ reply' = Reply(c, CreateBillParamsValidate(currency),
                                      <<>>, "")
                    /\ UNCHANGED <<machines, call>>
               ELSE IF ~clientOpen
               THEN /\ reply' = Reply(c, Internal, <<>>, "")
                    /\ UNCHANGED <<machines, call>>
               ELSE /\ id \in BillIDSpace
                    /\ machines' = Append(machines,
                           StartedMachine(id, customerID, currency))
                    /\ call' = [c EXCEPT !.step = "refetch", !.billID = id,
                                         !.started = <<id>>]
                    /\ reply' = NoReply
    /\ UNCHANGED <<clientOpen, wfVars, timerVars, moneyVars>>

\* Service.AddLineItem up to the making of the line item (part_003:94-131)
AddLineItemCheck ==
    /\ BeginCall
    /\ \E billID \in BillIDSpace, customerID \in DispCustomers,
          amount \in RequestAmounts, currency \in RequestCurrencies :
           LET c == [NoCall EXCEPT !.op = "AddLineItem", !.billID = billID,
                                   !.customerID = customerID,
                                   !.amount = amount, !.currency = currency]
               r == getBill(machines, clientOpen, billID, customerID)
               parsed == NewFromString(amount, currency)
           IN  IF AddLineItemParamsValidate(amount, currency) # ErrNone
               THEN /\ reply' = Reply(c, InvalidArgument, <<>>, "")
                    /\ call' = call
               ELSE /\ QueryReady(billID)
                    /\ IF r.err # ErrNone
                       THEN /\ reply' = Reply(c, r.err, <<>>, r.seen)
                            /\ call' = call
                       ELSE LET b == r.bill[1]
                                c2 == [c EXCEPT !.fetchedStatus = b.Status]
                                processed == ConvertTo(parsed.val, b.Currency, Rates)
                            IN  IF AlreadyClosed(b) \/ parsed.err \/ processed.err
                                THEN /\ reply' = Reply(c2, InvalidArgument,
                                                       r.bill, r.seen)
                                     /\ call' = call
                                ELSE /\ call' = [c2 EXCEPT
                                            !.step = "signal",
                                            !.lineItem = <<LineItem(callsMade + 1,
                                                processed.val, clock)>>]
                                     /\ reply' = NoReply
    /\ UNCHANGED <<machines, clientOpen, wfVars, timerVars, moneyVars>>

\* Service.AddLineItem: SignalWorkflow (part_003:133-138)
AddLineItemSend ==
    /\ call.op = "AddLineItem"
    /\ call.step = "signal"
    /\ IF SignalWorkflowFails(call.billID)
       THEN /\ reply' = Reply(call, Internal, <<>>, "")
            /\ call' = NoCall
            /\ UNCHANGED machines
       ELSE /\ machines' = [machines EXCEPT ![call.billID].addItemChan =
                                Append(@, call.lineItem[1])]
            /\ call' = [call EXCEPT !.step = "refetch", !.signalled = TRUE]
            /\ UNCHANGED reply
    /\ UNCHANGED <<clientOpen, callsMade, wfVars, timerVars, moneyVars>>

\* Service.CloseBill up to the making of the signal (part_003:146-157)
CloseBillCheck ==
    /\ BeginCall
    /\ \E billID \in BillIDSpace, customerID \in DispCustomers :
           LET c == [NoCall EXCEPT !.op = "CloseBill", !.billID = billID,
                                   !.customerID = customerID]
               r == getBill(machines, clientOpen, billID, customerID)
           IN  /\ QueryReady(billID)
               /\ IF r.err # ErrNone
                  THEN /\ reply' = Reply(c, r.err, <<>>, r.seen)
                       /\ call' = call
                  ELSE LET b == r.bill[1]
                           c2 == [c EXCEPT !.fetchedStatus = b.Status]
                       IN  IF AlreadyClosed(b)
                           THEN /\ reply' = Reply(c2, InvalidArgument,
                                                  r.bill, r.seen)
                                /\ call' = call
                           ELSE /\ call' = [c2 EXCEPT !.step = "signal"]
                                /\ reply' = NoReply
    /\ UNCHANGED <<machines, clientOpen, wfVars, timerVars, moneyVars>>

\* Service.CloseBill: SignalWorkflow (part_003:159-165)
CloseBillSend ==
    /\ call.op = "CloseBill"
    /\ call.step = "signal"
    /\ IF SignalWorkflowFails(call.billID)
       THEN /\ reply' = Reply(call, Internal, <<>>, "")
            /\ call' = NoCall
            /\ UNCHANGED machines
       ELSE /\ machines' = [machines EXCEPT ![call.billID].closeChan =
                                Append(@, CloseBillSignal(clock))]
            /\ call' = [call EXCEPT !.step = "refetch", !.signalled = TRUE]
            /\ UNCHANGED reply
    /\ UNCHANGED <<clientOpen, callsMade, wfVars, timerVars, moneyVars>>

\* The last statement of CreateBill, AddLineItem and CloseBill: return
\* s.getBill(...) (part_003:88, 140, 167).
ReturnGetBill ==
    /\ call.op \in {"CreateBill", "AddLineItem", "CloseBill"}
    /\ call.step = "refetch"
    /\ QueryReady(call.billID)
    /\ LET r == getBill(machines, clientOpen, call.billID, call.customerID)
       IN  reply' = Reply(call, r.err, r.bill, r.seen)
    /\ call' = NoCall
    /\ UNCHANGED <<machines, clientOpen, callsMade, wfVars, timerVars, moneyVars>>

\* Service.ListBills: ListWorkflow (part_003:225-241)
ListBillsStart ==
    /\ BeginCall
    /\ \E customerID \in ListCustomers, status \in StatusFilters :
           LET c == [NoCall EXCEPT !.op = "ListBills",
                                   !.customerID = customerID,
                                   !.status = status]
           IN  IF ~clientOpen
               THEN /\ reply' = Reply(c, Internal, <<>>, "")
                    /\ call' = call
               ELSE /\ call' = [c EXCEPT !.step = "loop",
                                   !.pending = ListWorkflow(machines, customerID, 1)]
                    /\ reply' = NoReply
    /\ UNCHANGED <<machines, clientOpen, wfVars, timerVars, moneyVars>>

\* Service.ListBills: one turn of the loop over the executions
\* (part_003:243-260)
ListBillsLoop ==
    /\ call.op = "ListBills"
    /\ call.step = "loop"
    /\ call.pending # <<>>
    /\ QueryReady(Head(call.pending))
    /\ LET r == getBill(machines, clientOpen, Head(call.pending), call.customerID)
           c == [call EXCEPT !.pending = Tail(@),
                             !.queried = @ \o r.queried]
       IN  IF r.err # ErrNone \/ StatusFilteredOut(call.status, r.bill[1])
           THEN call' = c
           ELSE call' = [c EXCEPT !.bills = Append(@, r.bill[1])]
    /\ UNCHANGED <<machines, clientOpen, reply, callsMade, wfVars, timerVars, moneyVars>>

\* Service.ListBills returns the response (part_003:262)
ListBillsReturn ==
    /\ call.op = "ListBills"
    /\ call.step = "loop"
    /\ call.pending = <<>>
    /\ reply' = Reply(call, ErrNone, <<>>, "")
    /\ call' = NoCall
    /\ UNCHANGED <<machines, clientOpen, callsMade, wfVars, timerVars, moneyVars>>

\* Service.Shutdown (part_003:49-52): the client is closed and the worker
\* stopped.
Shutdown ==
    /\ clientOpen
    /\ clientOpen' = FALSE
    /\ UNCHANGED <<machines, call, reply, callsMade, wfVars, timerVars, moneyVars>>

\* The worker runs the workflow with id billID: the selector is in Select.
Selecting(billID) ==
    /\ clientOpen
    /\ billID \in DOMAIN machines
    /\ machines[billID].lifecycle = "running"
    /\ machines[billID].pc = "select"

\* Select runs the callback of addItemChan (workflow.go:40-62).
MachineAddItem ==
    \E billID \in BillIDSpace :
        /\ Selecting(billID)
        /\ machines[billID].addItemChan # <<>>
        /\ LET m == machines[billID]
               b == addItemHandler(m.bill, Head(m.addItemChan))
           IN  machines' = [machines EXCEPT ![billID] =
                   Settle([m EXCEPT !.addItemChan = Tail(@)], b, FALSE, FALSE)]
        /\ UNCHANGED <<clientOpen, call, reply, callsMade, wfVars, timerVars, moneyVars>>

\* Select runs the callback of closeChan (workflow.go:64-78).
MachineClose ==
    \E billID \in BillIDSpace :
        /\ Selecting(billID)
        /\ machines[billID].closeChan # <<>>
        /\ LET m == machines[billID]
               r == closeHandler(m.bill, Head(m.closeChan))
           IN  machines' = [machines EXCEPT ![billID] =
                   Settle([m EXCEPT !.closeChan = Tail(@)], r.bill, r.notify, FALSE)]
        /\ UNCHANGED <<clientOpen, call, reply, callsMade, wfVars, timerVars, moneyVars>>

\* The month ends and Select runs the callback of the timer
\* (workflow.go:80-93).
MachineTimer ==
    \E billID \in BillIDSpace :
        /\ Selecting(billID)
        /\ LET m == machines[billID]
               r == timerHandler(m.bill, clock)
           IN  machines' = [machines EXCEPT ![billID] =
                   Settle(m, r.bill, r.notify, FALSE)]
        /\ UNCHANGED <<clientOpen, call, reply, callsMade, wfVars, timerVars, moneyVars>>

\* The notifier activity's Get returns, with or without an error, and the
\* loop ends (workflow.go:124-131, 97-102).
MachineNotified ==
    \E billID \in BillIDSpace, err \in BOOLEAN :
        /\ clientOpen
        /\ billID \in DOMAIN machines
        /\ machines[billID].lifecycle = "running"
        /\ machines[billID].pc = "notify"
        /\ LET m == machines[billID]
           IN  machines' = [machines EXCEPT ![billID] =
                   Settle(m, sendEmailNotification(m.bill, err), FALSE, err)]
        /\ UNCHANGED <<clientOpen, call, reply, callsMade, wfVars, timerVars, moneyVars>>

DispatcherInit ==
    /\ WorkflowParked
    /\ timerRun = NoTimerRun
    /\ moneyRun = NoMoneyRun
    /\ DispatcherIdle

DispatcherNext ==
    \/ GetBill
    \/ CreateBillStart
    \/ AddLineItemCheck
    \/ AddLineItemSend
    \/ CloseBillCheck
    \/ CloseBillSend
    \/ ReturnGetBill
    \/ ListBillsStart
    \/ ListBillsLoop
    \/ ListBillsReturn
    \/ Shutdown
    \/ MachineAddItem
    \/ MachineClose
    \/ MachineTimer
    \/ MachineNotified

DispatcherSpec == DispatcherInit /\ [][DispatcherNext]_vars

-----------------------------------------------------------------------------
(* Money.ConvertTo (part_001:66-83) on its own                              *)

\* The largest amount converted, in cents.
MaxConvertCents == 10000

\* The rate table of the money tests (part_002:296-299): 2.5 and 0.4.
TestRates == [USDToGEL |-> 25000, GELToUSD |-> 4000]
RateTables == {Rates, TestRates}

ConvertInit ==
    /\ WorkflowParked
    /\ timerRun = NoTimerRun
    /\ DispatcherIdle
    /\ \E cents \in 0..MaxConvertCents, currency \in RequestCurrencies,
          targetCurrency \in RequestCurrencies, rates \in RateTables :
           moneyRun = [op |-> "ConvertTo", step |-> 0,
                       arg |-> [m |-> Money(cents, currency),
                                targetCurrency |-> targetCurrency,
                                rates |-> rates],
                       res |-> <<>>]

\* m.ConvertTo(targetCurrency, rates)
ConvertForth ==
    /\ moneyRun.op = "ConvertTo"
    /\ moneyRun.step = 0
    /\ moneyRun' = [moneyRun EXCEPT
           !.step = 1,
           !.res = <<ConvertTo(moneyRun.arg.m, moneyRun.arg.targetCurrency,
                               moneyRun.arg.rates)>>]
    /\ UNCHANGED <<wfVars, timerVars, dispVars>>

\* result.ConvertTo(m.Currency, rates), the way back (part_002:301-305)
ConvertBack ==
    /\ moneyRun.op = "ConvertTo"
    /\ moneyRun.step = 1
    /\ ~moneyRun.res[1].err
    /\ moneyRun' = [moneyRun EXCEPT
           !.step = 2,
           !.res = Append(@, ConvertTo(moneyRun.res[1].val,
                                       moneyRun.arg.m.Currency,
                                       moneyRun.arg.rates))]
    /\ UNCHANGED <<wfVars, timerVars, dispVars>>

ConvertNext ==
    \/ ConvertForth
    \/ ConvertBack

ConvertSpec == ConvertInit /\ [][ConvertNext]_vars

\* The largest amount converted forth and back, in cents: 10,000.00.
MaxRoundTripCents == 1000000

\* Every amount up to MaxRoundTripCents in USD or GEL, to be converted to the
\* other of the two at the configured rates.
RoundTripInit ==
    /\ WorkflowParked
    /\ timerRun = NoTimerRun
    /\ DispatcherIdle
    /\ \E cents \in 0..MaxRoundTripCents, currency \in Currencies :
           moneyRun = [op |-> "ConvertTo", step |-> 0,
                       arg |-> [m |-> Money(cents, currency),
                                targetCurrency |->
                                    IF currency = USD THEN GEL ELSE USD,
                                rates |-> Rates],
                       res |-> <<>>]

RoundTripSpec == RoundTripInit /\ [][ConvertNext]_vars

-----------------------------------------------------------------------------
(* bills/money at full width.  The cents of a Money are an int64            *)
(* (part_001:12) and the coefficient of a decimal.Decimal is a big.Int;     *)
(* both are written here as sequences of bytes, lowest byte first: a        *)
(* big.Int magnitude as a sequence of any length, an int64 as Int64Bytes    *)
(* bytes in two's complement.  Strings are sequences of characters.         *)

\* The bytes of an int64 and the values of a byte.
Int64Bytes == 8
Byte == 256

\* The magnitude of a natural number that fits a machine word of the model.
RECURSIVE NatBytes(_)
NatBytes(n) == IF n = 0 THEN <<>> ELSE <<n % Byte>> \o NatBytes(n \div Byte)

\* The number a magnitude stands for (the magnitude has to be small).
RECURSIVE BytesNat(_)
BytesNat(b) == IF b = <<>> THEN 0 ELSE Head(b) + Byte * BytesNat(Tail(b))

\* A magnitude without its high zero bytes.
RECURSIVE Normalize(_)
Normalize(b) ==
    IF b = <<>> THEN <<>>
    ELSE IF b[Len(b)] = 0 THEN Normalize(SubSeq(b, 1, Len(b) - 1))
    ELSE b

\* big.Int.Add on magnitudes: a + b + carry.
RECURSIVE AddBytes(_, _, _)
AddBytes(a, b, carry) ==
    IF a = <<>> /\ b = <<>>
    THEN NatBytes(carry)
    ELSE LET x == IF a = <<>> THEN 0 ELSE Head(a)
             y == IF b = <<>> THEN 0 ELSE Head(b)
             s == x + y + carry
         IN  <<s % Byte>> \o AddBytes(IF a = <<>> THEN <<>> ELSE Tail(a),
                                      IF b = <<>> THEN <<>> ELSE Tail(b),
                                      s \div Byte)

\* big.Int.Mul by a small factor k: a * k + carry.
RECURSIVE MulSmall(_, _, _)
MulSmall(a, k, carry) ==
    IF a = <<>>
    THEN NatBytes(carry)
    ELSE LET s == Head(a) * k + carry
         IN  <<s % Byte>> \o MulSmall(Tail(a), k, s \div Byte)

\* big.Int.QuoRem by a small divisor k > 0: the quotient q and remainder r.
RECURSIVE DivSmall(_, _)
DivSmall(a, k) ==
    IF a = <<>>
    THEN [q |-> <<>>, r |-> 0]
    ELSE LET high == DivSmall(Tail(a), k)
             v == Byte * high.r + Head(a)
         IN  [q |-> <<v \div k>> \o high.q, r |-> v % k]

RECURSIVE Pow10(_)
Pow10(n) == IF n = 0 THEN 1 ELSE 10 * Pow10(n - 1)

\* The low 64 bits of a magnitude.
Low64(b) == [i \in 1..Int64Bytes |-> IF i <= Len(b) THEN b[i] ELSE 0]

\* The int64 of a small natural number.
Int64(n) == Low64(NatBytes(n))

\* -v in int64: the complement plus one, cut to the width.
Int64Neg(v) ==
    Low64(AddBytes([i \in 1..Int64Bytes |-> Byte - 1 - v[i]], <<1>>, 0))

\* v < 0 in int64: the sign bit.
Int64IsNegative(v) == v[Int64Bytes] >= Byte \div 2

\* a + b in int64 (Go wraps around on overflow).
Int64Add(a, b) == Low64(AddBytes(a, b, 0))

\* |v| of an int64, as a magnitude.
Int64Abs(v) == Normalize(IF Int64IsNegative(v) THEN Int64Neg(v) ELSE v)

\* big.Int.Int64: the low 64 bits of the magnitude, negated for a negative
\* number.
BigIntInt64(neg, magnitude) ==
    IF neg THEN Int64Neg(Low64(magnitude)) ELSE Low64(magnitude)

\* The characters of a decimal digit string.
Digits == <<"0", "1", "2", "3", "4", "5", "6", "7", "8", "9">>
DigitChars == {Digits[i] : i \in 1..10}
DigitVal(c) == (CHOOSE i \in 1..10 : Digits[i] = c) - 1

\* The magnitude a string of digits denotes.
RECURSIVE DigitsToBytes(_)
DigitsToBytes(s) ==
    IF s = <<>> THEN <<>>
    ELSE AddBytes(MulSmall(DigitsToBytes(SubSeq(s, 1, Len(s) - 1)), 10, 0),
                 NatBytes(DigitVal(s[Len(s)])), 0)

\* The digits of a magnitude, at least one.
RECURSIVE BytesToDigits(_)
BytesToDigits(b) ==
    LET d == DivSmall(b, 10)
    IN  IF Normalize(d.q) = <<>>
        THEN <<Digits[d.r + 1]>>
        ELSE BytesToDigits(Normalize(d.q)) \o <<Digits[d.r + 1]>>

\* strconv.ParseInt(s, 10, 64) and big.Int.SetString(s, 10), which
\* decimal.NewFromString uses for up to 18 characters and for more: an
\* optional sign and at least one digit.
ParseInt(s) ==
    LET signed == s # <<>> /\ s[1] \in {"+", "-"}
        digits == IF signed THEN Tail(s) ELSE s
    IN  IF digits = <<>> \/ \E i \in 1..Len(digits) : digits[i] \notin DigitChars
        THEN [err |-> TRUE, neg |-> FALSE, magnitude |-> <<>>]
        ELSE [err |-> FALSE,
              neg |-> signed /\ s[1] = "-" /\ Normalize(DigitsToBytes(digits)) # <<>>,
              magnitude |-> Normalize(DigitsToBytes(digits))]

\* decimal.NewFromString on a string without an exponent: at most one point,
\* which is taken out; what is left is parsed as an integer, and the
\* characters after the point count the decimal places.
decimalNewFromString(value) ==
    LET points == {i \in 1..Len(value) : value[i] = "."}
        pIndex == CHOOSE i \in points : TRUE
        intString == IF points = {} THEN value
                     ELSE SubSeq(value, 1, pIndex - 1)
                              \o SubSeq(value, pIndex + 1, Len(value))
        parsed == ParseInt(intString)
    IN  IF Cardinality(points) > 1 \/ parsed.err
        THEN [err |-> TRUE, neg |-> FALSE, coef |-> <<>>, places |-> 0]
        ELSE [err |-> FALSE, neg |-> parsed.neg, coef |-> parsed.magnitude,
              places |-> IF points = {} THEN 0 ELSE Len(value) - pIndex]

\* A variant of decimalToCents that cuts the amount off after the cents.
decimalToCents_truncates(amount) ==
    BigIntInt64(amount.neg,
                DivSmall(MulSmall(amount.coef, 100, 0), Pow10(amount.places)).q)

\* decimalToCents (part_001:85-87): amount.Mul(100).Round(0).IntPart().
\* Round(0) cuts the number off after one decimal place, adds 5 to the
\* magnitude of what is left and drops the last digit: half away from zero.
decimalToCents(amount) ==
    LET scaled == MulSmall(amount.coef, 100, 0)
        oneMore == DivSmall(scaled, Pow10(amount.places - 1)).q
        rounded == IF amount.places = 0 THEN scaled
                   ELSE DivSmall(AddBytes(oneMore, NatBytes(5), 0), 10).q
    IN  BigIntInt64(amount.neg /\ Normalize(rounded) # <<>>, rounded)

\* money.New (part_001:16-21)
New(amount, currency) == Money(decimalToCents(amount), currency)

\* Money.validate (part_001:38-48) on int64 cents.
validateInt64(m) == m.Currency \in Currencies /\ ~Int64IsNegative(m.cents)

\* money.NewFromString (part_001:50-64) on a string of characters: the
\* Money it returns next to the error.
NewFromStringInt64(amount, currency) ==
    LET d == decimalNewFromString(amount)
        m == New(d, currency)
    IN  IF d.err
        THEN [err |-> TRUE, val |-> Money(Int64(0), "")]
        ELSE [err |-> ~validateInt64(m), val |-> m]

\* A variant of Money.Add on int64 cents that adds to the whole units of the
\* receiver only.
AddInt64_receiverInUnits(m, other) ==
    IF m.Currency # other.Currency
    THEN [err |-> TRUE, val |-> Money(Int64(0), "")]
    ELSE [err |-> FALSE,
          val |-> Money(Int64Add(Low64(MulSmall(DivSmall(m.cents, 100).q, 100, 0)),
                                 other.cents),
                        m.Currency)]

\* Money.Add (part_001:23-32) on int64 cents.
AddInt64(m, other) ==
    IF m.Currency # other.Currency
    THEN [err |-> TRUE, val |-> Money(Int64(0), "")]
    ELSE [err |-> FALSE,
          val |-> Money(Int64Add(m.cents, other.cents), m.Currency)]


-----------------------------------------------------------------------------
(* money.NewFromString (part_001:50-64) on its own                          *)

\* The longest amount string drawn from the alphabet, and the most items
\* constructed and added up in one run.
MaxAmountLen == 5
MaxItems == 5

\* The characters amount strings are made of: digits, the point, the sign
\* and a character that is none of them.  Exponents are left out.
AmountAlphabet == {"0", "1", "5", "9", ".", "-", "x"}

\* The amounts of the money tests (part_002:29-38, 163-195) and amounts of
\* cents at the upper end of int64.
NamedAmounts ==
    { <<"0", ".", "0", "0", "4">>,
      <<"0", ".", "9", "9", "4">>,
      <<"0", ".", "9", "9", "5">>,
      <<"1", "2", "3", ".", "4", "5">>,
      <<"-", "1", "2", "3", ".", "4", "5">>,
      <<"-", "0", ".", "0", "0", "1">>,
      <<"i", "n", "v", "a", "l", "i", "d">>,
      <<"9", "2", "2", "3", "3", "7", "2", "0", "3", "6", "8", "5", "4", "7",
        "7", "5", "8", ".", "0", "7">>,
      <<"9", "2", "2", "3", "3", "7", "2", "0", "3", "6", "8", "5", "4", "7",
        "7", "5", "8", ".", "0", "8">> }

AmountStrings ==
    NamedAmounts \cup
    UNION {[1..n -> AmountAlphabet] : n \in 0..MaxAmountLen}

\* The amounts of the items that are added up: 0.01, 0.02, 0.001, 0.005 and
\* 0.009.
ItemAmounts ==
    { <<"0", ".", "0", "1">>,
      <<"0", ".", "0", "2">>,
      <<"0", ".", "0", "0", "1">>,
      <<"0", ".", "0", "0", "5">>,
      <<"0", ".", "0", "0", "9">> }

\* Either one amount string and a currency to construct a Money from, or a
\* total of zero to add constructed items to.
ConstructInit ==
    /\ WorkflowParked
    /\ timerRun = NoTimerRun
    /\ DispatcherIdle
    /\ \/ \E amount \in AmountStrings, currency \in RequestCurrencies :
              moneyRun = [op |-> "NewFromString", step |-> 0,
                          arg |-> [amount |-> amount, currency |-> currency],
                          res |-> <<>>]
       \/ \E currency \in Currencies :
              moneyRun = [op |-> "AddItems", step |-> 0, arg |-> <<>>,
                          res |-> <<Money(Int64(0), currency)>>]

\* money.NewFromString(amount, currency)
Construct ==
    /\ moneyRun.op = "NewFromString"
    /\ moneyRun.step = 0
    /\ moneyRun' = [moneyRun EXCEPT
           !.step = 1,
           !.res = <<NewFromStringInt64(moneyRun.arg.amount,
                                        moneyRun.arg.currency)>>]
    /\ UNCHANGED <<wfVars, timerVars, dispVars>>

\* One more item: its amount is constructed in the currency of the total
\* (part_003:111) and added to the total (workflow.go:49).
ConstructItem ==
    /\ moneyRun.op = "AddItems"
    /\ moneyRun.step < MaxItems
    /\ \E amount \in ItemAmounts :
           LET total == moneyRun.res[1]
               item == NewFromStringInt64(amount, total.Currency)
               sum == AddInt64(total, item.val)
           IN  /\ ~item.err
               /\ ~sum.err
               /\ moneyRun' = [moneyRun EXCEPT
                      !.step = @ + 1,
                      !.arg = Append(@, amount),
                      !.res = <<sum.val>>]
    /\ UNCHANGED <<wfVars, timerVars, dispVars>>

ConstructNext ==
    \/ Construct
    \/ ConstructItem

ConstructSpec == ConstructInit /\ [][ConstructNext]_vars


-----------------------------------------------------------------------------
(* Money.Add (part_001:23-32) in the callback of addItemChan                *)
(* (workflow.go:40-62), on int64 cents                                      *)

\* The most items one bill is handed.
MaxAddends == 3

\* The int64 a string of digits denotes.
Cents(digits) == Low64(DigitsToBytes(digits))

\* The cents of the items: 0, 1, 100 (part_002:60), 50,000,000,000,000,000.00,
\* math.MaxInt64 - 100 (part_002:59) and math.MaxInt64.
AddendCents ==
    { Cents(<<"0">>),
      Cents(<<"1">>),
      Cents(<<"1", "0", "0">>),
      Cents(<<"5", "0", "0", "0", "0", "0", "0", "0", "0", "0", "0", "0", "0",
              "0", "0", "0", "0", "0", "0">>),
      Cents(<<"9", "2", "2", "3", "3", "7", "2", "0", "3", "6", "8", "5", "4",
              "7", "7", "5", "7", "0", "7">>),
      Cents(<<"9", "2", "2", "3", "3", "7", "2", "0", "3", "6", "8", "5", "4",
              "7", "7", "5", "8", "0", "7">>) }

\* NewBill (workflow.go:15-23) with its Total in int64 cents.
NewBillInt64(billID, customerID, currency, now) ==
    [NewBill(billID, customerID, currency, now)
         EXCEPT !.Total = Money(Int64(0), currency)]

\* workflow.go:40-62, the callback of addItemChan, on int64 cents: the bill
\* it leaves.
addItemHandlerInt64(b, lineItem) ==
    IF b.Status = BillStatusClosed
    THEN b
    ELSE LET appended == [b EXCEPT !.LineItems = Append(@, lineItem)]
             sum == AddInt64(b.Total, lineItem.Amount)
         IN  IF sum.err THEN appended ELSE [appended EXCEPT !.Total = sum.val]

\* An OPEN bill with no items, in USD or GEL.
AddInit ==
    /\ WorkflowParked
    /\ timerRun = NoTimerRun
    /\ DispatcherIdle
    /\ \E currency \in Currencies :
           moneyRun = [op |-> "Add", step |-> 0, arg |-> <<>>,
                       res |-> <<NewBillInt64("bill-123", 456, currency, 0),
                                 [err |-> FALSE,
                                  val |-> Money(Int64(0), currency)]>>]

\* The callback of addItemChan receives one more item of a valid,
\* non-negative amount; res holds the bill and what bill.Total.Add returned.
AddItem ==
    /\ moneyRun.op = "Add"
    /\ moneyRun.step < MaxAddends
    /\ \E cents \in AddendCents, currency \in Currencies :
           LET lineItem == LineItem(moneyRun.step + 1,
                                    Money(cents, currency), 0)
               b == moneyRun.res[1]
           IN  moneyRun' = [moneyRun EXCEPT
                   !.step = @ + 1,
                   !.arg = Append(@, lineItem),
                   !.res = <<addItemHandlerInt64(b, lineItem),
                             AddInt64(b.Total, lineItem.Amount)>>]
    /\ UNCHANGED <<wfVars, timerVars, dispVars>>

AddNext == AddItem

AddSpec == AddInit /\ [][AddNext]_vars


-----------------------------------------------------------------------------
(* The serialized form of Money: FormatWithSymbol, MarshalJSON and          *)
(* UnmarshalJSON (part_001:93-143).  A float64 is a pair m, e of a          *)
(* magnitude below 2^53 and an exponent, standing for m * 2^e.              *)

\* The bits of the significand of a float64.
MantissaBits == 53

RECURSIVE Pow2(_)
Pow2(n) == IF n = 0 THEN 1 ELSE 2 * Pow2(n - 1)

RECURSIVE BitLenSmall(_)
BitLenSmall(n) == IF n = 0 THEN 0 ELSE 1 + BitLenSmall(n \div 2)

\* The number of bits of a magnitude.
BitLen(b) ==
    LET n == Normalize(b)
    IN  IF n = <<>> THEN 0 ELSE 8 * (Len(n) - 1) + BitLenSmall(n[Len(n)])

\* b * 2^s: whole bytes first, then the bits that are left.
ShiftLeft(b, s) ==
    MulSmall([i \in 1..(s \div 8) |-> 0] \o b, Pow2(s % 8), 0)

\* b / 2^s cut off, and whether anything was cut off.
ShiftRight(b, s) ==
    LET bytes == s \div 8
        dropped == SubSeq(b, 1, bytes)
        kept == SubSeq(b, bytes + 1, Len(b))
        d == DivSmall(kept, Pow2(s % 8))
    IN  [q |-> Normalize(d.q),
         inexact |-> d.r # 0 \/ \E i \in 1..Len(dropped) : dropped[i] # 0]

\* b / 2^s (s >= 1) rounded to the nearest integer, to the even one of two
\* that are equally near; sticky says that the exact number is a little more
\* than b.
RoundHalfEven(b, s, sticky) ==
    LET t == ShiftRight(b, s - 1)
        guard == t.q # <<>> /\ t.q[1] % 2 = 1
        q == Normalize(DivSmall(t.q, 2).q)
        odd == q # <<>> /\ q[1] % 2 = 1
    IN  IF guard /\ (t.inexact \/ sticky \/ odd)
        THEN Normalize(AddBytes(q, <<1>>, 0))
        ELSE q

\* The float64 nearest to b * 2^e, where sticky says that the exact number is
\* a little more.
RoundToFloat64(b, e, sticky) ==
    LET len == BitLen(b)
        s == len - MantissaBits
        m == RoundHalfEven(b, s, sticky)
    IN  IF len <= MantissaBits THEN [m |-> Normalize(b), e |-> e]
        ELSE IF BitLen(m) > MantissaBits
        THEN [m |-> Normalize(DivSmall(m, 2).q), e |-> e + s + 1]
        ELSE [m |-> m, e |-> e + s]

\* float64(cents) for cents >= 0, given as a magnitude.
Float64(magnitude) == RoundToFloat64(magnitude, 0, FALSE)

\* x / 100 in float64: the quotient of x.m * 2^64 by 100, rounded.
Float64Div100(x) ==
    LET d == DivSmall(ShiftLeft(x.m, 64), 100)
    IN  IF x.m = <<>> THEN x
        ELSE RoundToFloat64(Normalize(d.q), x.e - 64, d.r # 0)

\* fmt.Sprintf("%.2f", x) for x >= 0: the hundredths nearest to x, to the
\* even one of two that are equally near, written with a point before the
\* last two digits.
FormatFloat2(x) ==
    LET scaled == MulSmall(x.m, 100, 0)
        hundredths == IF x.e >= 0 THEN ShiftLeft(scaled, x.e)
                      ELSE RoundHalfEven(scaled, -x.e, FALSE)
        ds == BytesToDigits(Normalize(hundredths))
        padded == IF Len(ds) = 1 THEN <<"0", "0">> \o ds
                  ELSE IF Len(ds) = 2 THEN <<"0">> \o ds
                  ELSE ds
    IN  SubSeq(padded, 1, Len(padded) - 2) \o <<".">>
            \o SubSeq(padded, Len(padded) - 1, Len(padded))

\* centsToDecimalString (part_001:93-95): float64(cents) / 100 with two
\* decimals.
centsToDecimalString(cents) ==
    (IF Int64IsNegative(cents) THEN <<"-">> ELSE <<>>)
        \o FormatFloat2(Float64Div100(Float64(Int64Abs(cents))))


\* string(c) of a currency code.
CurrencyChars(c) ==
    CASE c = USD -> <<"U", "S", "D">>
      [] c = GEL -> <<"G", "E", "L">>
      [] c = "EUR" -> <<"E", "U", "R">>
      [] OTHER -> <<>>

\* Currency.Symbol (rates.go:17-26)
Symbol(c) ==
    CASE c = USD -> <<"$">>
      [] c = GEL -> <<"₾">>
      [] OTHER -> CurrencyChars(c)

\* Money.FormatWithSymbol (part_001:105-110)
FormatWithSymbol(m) == Symbol(m.Currency) \o centsToDecimalString(m.cents)

\* A JSON document: a string of characters, or something that is not a
\* string.
JSONString(chars) == [kind |-> "string", chars |-> chars]
JSONNumber == [kind |-> "number", chars |-> <<>>]

\* Money.MarshalJSON (part_001:112-114)
MarshalJSON(m) == JSONString(FormatWithSymbol(m))

Whitespace == {" ", "\t", "\n", "\r"}

\* strings.TrimSpace
RECURSIVE TrimSpace(_)
TrimSpace(s) ==
    IF s = <<>> THEN s
    ELSE IF s[1] \in Whitespace THEN TrimSpace(Tail(s))
    ELSE IF s[Len(s)] \in Whitespace THEN TrimSpace(SubSeq(s, 1, Len(s) - 1))
    ELSE s

\* strings.HasPrefix and strings.TrimPrefix
HasPrefix(s, prefix) ==
    Len(s) >= Len(prefix) /\ SubSeq(s, 1, Len(prefix)) = prefix
TrimPrefix(s, prefix) ==
    IF HasPrefix(s, prefix) THEN SubSeq(s, Len(prefix) + 1, Len(s)) ELSE s

\* Money.UnmarshalJSON (part_001:116-143) into the Money m: the error and
\* what m holds when the call returns.
UnmarshalJSON(m, data) ==
    LET valueStr == TrimSpace(data.chars)
        currency == IF HasPrefix(valueStr, <<"$">>) THEN USD
                    ELSE IF HasPrefix(valueStr, <<"₾">>) THEN GEL
                    ELSE m.Currency
        rest == IF HasPrefix(valueStr, <<"$">>)
                THEN TrimPrefix(valueStr, <<"$">>)
                ELSE TrimPrefix(valueStr, <<"₾">>)
        amount == decimalNewFromString(TrimSpace(rest))
        parsed == Money(decimalToCents(amount), currency)
    IN  IF data.kind # "string"
        THEN [err |-> TRUE, val |-> m]
        ELSE IF amount.err
        THEN [err |-> TRUE, val |-> Money(m.cents, currency)]
        ELSE [err |-> ~validateInt64(parsed), val |-> parsed]

\* The longest serialized string drawn from the alphabet, and the largest
\* of the small amounts of cents that are serialized.
MaxJSONLen == 5
MaxJSONCents == 200

\* The characters serialized strings are made of.
JSONAlphabet == {"$", "₾", "-", " ", "0", "1", ".", "x"}

\* Serialized forms of the money tests (part_002:277-292, 319-344).
NamedJSONStrings ==
    { <<" ", "$", "1", "2", "3", ".", "4", "5", " ">>,
      <<"-", "$", "1", "2", "3", ".", "4", "5">>,
      <<"$", "-", "1", "2", "3", ".", "4", "5">>,
      <<"€", "1", "2", "3", ".", "4", "5">>,
      <<"1", "2", "3", ".", "4", "5">>,
      <<"i", "n", "v", "a", "l", "i", "d">> }

JSONDocuments ==
    {JSONNumber} \cup
    {JSONString(s) : s \in NamedJSONStrings \cup
                            UNION {[1..n -> JSONAlphabet] : n \in 0..MaxJSONLen}}

\* The cents that are serialized: the small amounts, and amounts around 2^53
\* and up to math.MaxInt64 (workflow_test.go:982-1035).
JSONCents ==
    {Int64(n) : n \in 0..MaxJSONCents} \cup
    { Cents(<<"1", "2", "3", "4", "5">>),
      Cents(<<"9", "0", "0", "7", "1", "9", "9", "2", "5", "4", "7", "4", "0",
              "9", "9", "2">>),
      Cents(<<"9", "0", "0", "7", "1", "9", "9", "2", "5", "4", "7", "4", "0",
              "9", "9", "3">>),
      Cents(<<"1", "0", "0", "0", "0", "0", "0", "0", "0", "0", "0", "0", "0",
              "0", "0", "0", "1">>),
      Cents(<<"9", "9", "9", "9", "9", "9", "9", "9", "9", "9", "9", "9", "9",
              "9", "9", "9", "9", "9">>),
      Cents(<<"1", "9", "9", "9", "9", "9", "9", "9", "9", "9", "9", "9", "9",
              "9", "9", "9", "9", "9", "8">>),
      Cents(<<"5", "0", "0", "0", "0", "0", "0", "0", "0", "0", "0", "0", "0",
              "0", "0", "0", "0", "0", "0">>),
      Cents(<<"9", "2", "2", "3", "3", "7", "2", "0", "3", "6", "8", "5", "4",
              "7", "7", "5", "8", "0", "7">>) }

\* The Money values UnmarshalJSON writes into: the zero value of
\* `var m Money`, and values that hold a currency already.
Destinations ==
    {Money(Int64(0), ""), Money(Int64(7), USD), Money(Int64(7), GEL)}

\* Either a Money to serialize and parse again, or a document to parse; both
\* with the Money that is parsed into.
JSONInit ==
    /\ WorkflowParked
    /\ timerRun = NoTimerRun
    /\ DispatcherIdle
    /\ \E dest \in Destinations :
           \/ \E cents \in JSONCents, currency \in Currencies \cup {""} :
                  moneyRun = [op |-> "MarshalJSON", step |-> 0,
                              arg |-> [m |-> Money(cents, currency),
                                       data |-> JSONNumber, dest |-> dest],
                              res |-> <<>>]
           \/ \E data \in JSONDocuments :
                  moneyRun = [op |-> "UnmarshalJSON", step |-> 0,
                              arg |-> [m |-> dest, data |-> data,
                                       dest |-> dest],
                              res |-> <<>>]

\* json.Marshal(m)
Marshal ==
    /\ moneyRun.op = "MarshalJSON"
    /\ moneyRun.step = 0
    /\ moneyRun' = [moneyRun EXCEPT
           !.step = 1,
           !.arg.data = MarshalJSON(moneyRun.arg.m),
           !.res = <<MarshalJSON(moneyRun.arg.m)>>]
    /\ UNCHANGED <<wfVars, timerVars, dispVars>>

\* json.Unmarshal(data, &dest): of the document just written, or of the
\* document drawn.
Unmarshal ==
    /\ \/ moneyRun.op = "MarshalJSON" /\ moneyRun.step = 1
       \/ moneyRun.op = "UnmarshalJSON" /\ moneyRun.step = 0
    /\ moneyRun' = [moneyRun EXCEPT
           !.step = @ + 1,
           !.res = Append(@, UnmarshalJSON(moneyRun.arg.dest,
                                           moneyRun.arg.data))]
    /\ UNCHANGED <<wfVars, timerVars, dispVars>>

JSONNext ==
    \/ Marshal
    \/ Unmarshal

JSONSpec == JSONInit /\ [][JSONNext]_vars


-----------------------------------------------------------------------------
(* The add-item callback on events whose item ids are the sender's choice  *)
(* (workflow.go:40-78): ids may repeat, amounts may be zero.               *)

\* The events one bill receives.
MaxItemEvents == 3

\* The item ids of the events; fewer than the events, so that ids repeat.
ItemIDs == {1, 2}

\* An OPEN bill with no items, in USD or GEL.
ItemInit ==
    /\ WorkflowParked
    /\ timerRun = NoTimerRun
    /\ DispatcherIdle
    /\ \E currency \in Currencies :
           moneyRun = [op |-> "items", step |-> 0, arg |-> <<>>,
                       res |-> <<NewBill("bill-123", 456, currency, 0)>>]

\* The callback of addItemChan receives an event with any item id and
\* amount; arg holds the event and res the bill the callback leaves.
ReceiveItem ==
    /\ moneyRun.op = "items"
    /\ moneyRun.step < MaxItemEvents
    /\ \E id \in ItemIDs, cents \in ItemCents, currency \in Currencies :
           LET lineItem == LineItem(id, Money(cents, currency), moneyRun.step)
           IN  /\ validate(lineItem.Amount)
               /\ moneyRun' = [moneyRun EXCEPT
                      !.step = @ + 1,
                      !.arg = <<lineItem>>,
                      !.res = <<addItemHandler(moneyRun.res[1], lineItem)>>]
    /\ UNCHANGED <<wfVars, timerVars, dispVars>>

\* The callback of closeChan receives a close event.
ReceiveClose ==
    /\ moneyRun.op = "items"
    /\ moneyRun.step < MaxItemEvents
    /\ moneyRun' = [moneyRun EXCEPT
           !.step = @ + 1,
           !.arg = <<>>,
           !.res = <<closeHandler(moneyRun.res[1],
                                  CloseBillSignal(moneyRun.step)).bill>>]
    /\ UNCHANGED <<wfVars, timerVars, dispVars>>

ItemNext ==
    \/ ReceiveItem
    \/ ReceiveClose

ItemSpec == ItemInit /\ [][ItemNext]_vars


-----------------------------------------------------------------------------
(* Service.AddLineItem from the request's amount to the event it sends      *)
(* (part_003:94-133), on int64 cents: Validate, NewFromString, ConvertTo    *)

\* The decimal places of config.Rates: 2.7777 and 0.3601 (cfg.go:10).
RatePlaces == 4

\* centsToDecimal (part_001:89-91): cents / 100, a decimal of two places.
centsToDecimal(cents) ==
    [neg |-> Int64IsNegative(cents), coef |-> Int64Abs(cents), places |-> 2]

\* decimal.Mul by a rate of config.Rates, given as an integer over RateScale:
\* the coefficients are multiplied and the places added.
decimalMulRate(amount, rate) ==
    [neg |-> amount.neg,
     coef |-> Normalize(MulSmall(amount.coef, rate, 0)),
     places |-> amount.places + RatePlaces]

\* Money.ConvertTo (part_001:66-83) on int64 cents.
ConvertToInt64(m, targetCurrency, rates) ==
    IF m.Currency = targetCurrency
    THEN [err |-> FALSE, val |-> m]
    ELSE IF m.Currency = USD /\ targetCurrency = GEL
    THEN [err |-> FALSE,
          val |-> New(decimalMulRate(centsToDecimal(m.cents), rates.USDToGEL),
                      GEL)]
    ELSE IF m.Currency = GEL /\ targetCurrency = USD
    THEN [err |-> FALSE,
          val |-> New(decimalMulRate(centsToDecimal(m.cents), rates.GELToUSD),
                      USD)]
    ELSE [err |-> TRUE, val |-> Money(Int64(0), "")]

\* The longest amount string drawn from the alphabet.
MaxSendLen == 3

\* The amounts of the requests: short strings over the alphabet, the
\* amounts of the money tests, and 50,000,000,000,000,000.00.
SendAmounts ==
    NamedAmounts
    \cup UNION {[1..n -> AmountAlphabet] : n \in 0..MaxSendLen}
    \cup { <<"1", "0", ".", "0", "0">>,
           <<"5", "0", "0", "0", "0", "0", "0", "0", "0", "0", "0", "0", "0",
             "0", "0", "0", "0", ".", "0", "0">> }

\* A request AddLineItem{amount, currency} by the owner of an OPEN bill of
\* currency billCurrency.
SendInit ==
    /\ WorkflowParked
    /\ timerRun = NoTimerRun
    /\ DispatcherIdle
    /\ \E amount \in SendAmounts, currency \in RequestCurrencies,
          billCurrency \in Currencies :
           moneyRun = [op |-> "AddLineItem", step |-> 0,
                       arg |-> [amount |-> amount, currency |-> currency,
                                billCurrency |-> billCurrency],
                       res |-> <<>>]

\* Service.AddLineItem on the request (part_003:95, 109-133): the error it
\* returns, or the amount of the event it sends with SignalWorkflow.
AddLineItemAmount ==
    /\ moneyRun.op = "AddLineItem"
    /\ moneyRun.step = 0
    /\ LET a == moneyRun.arg
           amount == NewFromStringInt64(a.amount, a.currency)
           processed == ConvertToInt64(amount.val, a.billCurrency, Rates)
       IN  moneyRun' = [moneyRun EXCEPT
               !.step = 1,
               !.res = IF amount.err \/ processed.err
                       THEN [err |-> InvalidArgument, event |-> <<>>]
                       ELSE [err |-> ErrNone, event |-> <<processed.val>>]]
    /\ UNCHANGED <<wfVars, timerVars, dispVars>>

SendNext == AddLineItemAmount

SendSpec == SendInit /\ [][SendNext]_vars

----------------------------------------------------------------------------
(* Properties                                                              *)

IsPrefix(s, t) == Len(s) <= Len(t) /\ SubSeq(t, 1, Len(s)) = s

RECURSIVE SumCents(_)
SumCents(items) ==
    IF items = <<>> THEN 0
    ELSE items[1].Amount.cents + SumCents(Tail(items))

\* C1: the status starts OPEN; whenever it changes, it changes from OPEN to
\* CLOSED, and the step that changes it is the close callback or the timer
\* callback.  (It can therefore change at most once, and never back to OPEN.)
C1_StatusOpenToClosedOnce ==
    /\ bill.Status = BillStatusOpen
    /\ [][bill'.Status # bill.Status =>
            /\ bill.Status = BillStatusOpen
            /\ bill'.Status = BillStatusClosed
            /\ (HandleClose \/ HandleTimer)]_vars

\* A bill with an item, closed while another close signal was still pending.
C1_Witness ==
    /\ bill.Status = BillStatusClosed
    /\ bill.LineItems # <<>>
    /\ closeChan # <<>>

\* C2: in every state a query can observe (every state of the model is one
\* in which the coroutine is blocked or has returned), closed_at is present
\* if and only if the status is CLOSED.
C2_ClosedAtIffClosed ==
    (bill.ClosedAt # NilTime) <=> (bill.Status = BillStatusClosed)

\* A closed bill observed while the notifier activity is in flight.
C2_Witness ==
    /\ pc = "notify"
    /\ bill.Status = BillStatusClosed
    /\ bill.ClosedAt = TimePtr(clock)

\* C3 (as claimed): between callbacks the total is, in the declared currency,
\* exactly the sum of the amounts of the items in the list.
C3_TotalIsSumOfItems ==
    bill.Total = Money(SumCents(bill.LineItems), bill.Currency)

\* C4 (as claimed): every item in the list has an amount in the bill's
\* declared currency.
C4_ItemsInDeclaredCurrency ==
    \A i \in 1..Len(bill.LineItems) :
        bill.LineItems[i].Amount.Currency = bill.Currency

\* C5 (as claimed): when the add-item callback handles, on an OPEN bill, an
\* item whose amount is in the other currency, the item it stores holds the
\* amount converted to the declared currency at the configured rates, and the
\* total grows by the converted amount.
C5_OtherCurrencyStoredConverted ==
    [][(/\ HandleAddItem
        /\ bill.Status = BillStatusOpen
        /\ Head(addItemChan).Amount.Currency # bill.Currency)
       => LET converted == ConvertTo(Head(addItemChan).Amount, bill.Currency, Rates).val
          IN  /\ bill'.LineItems =
                     Append(bill.LineItems,
                            [Head(addItemChan) EXCEPT !.Amount = converted])
              /\ bill'.Total = Add(bill.Total, converted).val]_vars

C7_ClosedBillFrozen ==
    [][bill.Status = BillStatusClosed => bill' = bill]_vars

\* The workflow has returned with closed-at T1 while a close signal carrying
\* another closed-at is still in the channel.
C7_Witness ==
    /\ pc = "done"
    /\ closeChan # <<>>
    /\ bill.ClosedAt # NilTime
    /\ bill.ClosedAt # TimePtr(Head(closeChan).ClosedAt)

\* C8: across every step the item list before the step is a prefix of the
\* list after it, and the list changes only by the add-item callback putting
\* the item it handles at the end.
C8_LineItemsAppendOnly ==
    [][/\ IsPrefix(bill.LineItems, bill'.LineItems)
       /\ bill'.LineItems # bill.LineItems =>
              /\ HandleAddItem
              /\ bill'.LineItems = Append(bill.LineItems, Head(addItemChan))]_vars

\* Two items in the list, in the order they were sent and handled.
C8_Witness ==
    /\ Len(bill.LineItems) = 2
    /\ bill.LineItems[1].ID < bill.LineItems[2].ID
    /\ bill.LineItems[1].Amount # bill.LineItems[2].Amount

\* C9: the notifier activity is not called while the bill is OPEN, is called
\* once by the time the workflow has returned, never more than once, and is
\* called only with the status CLOSED and closed-at set.
C9_NotifierCalledOnce ==
    /\ bill.Status = BillStatusOpen => notifyCalls = 0
    /\ pc = "done" => notifyCalls = 1
    /\ notifyCalls <= 1
    /\ notifyCalls >= 1 =>
           bill.Status = BillStatusClosed /\ bill.ClosedAt # NilTime

\* The workflow has returned after one notifier call, with a further close
\* signal left in the channel and the timer ready.
C9_Witness ==
    /\ pc = "done"
    /\ notifyCalls = 1
    /\ closeChan # <<>>
    /\ clock >= timerDeadline

\* C10: when the workflow has returned it has returned no error and the bill
\* is CLOSED; when the notifier call ended in an error, the bill is CLOSED
\* all the same and the workflow has returned no error.
C10_CompletesWhateverNotifier ==
    /\ pc = "done" =>
           wfResult = "completed" /\ bill.Status = BillStatusClosed
    /\ activityErr =>
           /\ bill.Status = BillStatusClosed
           /\ pc = "done"
           /\ wfResult = "completed"

\* All MaximumAttempts attempts of the notifier failed and the workflow has
\* returned.
C10_Witness ==
    /\ activityErr
    /\ attempts = MaximumAttempts
    /\ pc = "done"

RECURSIVE NextMonthStartFrom(_, _, _, _)
NextMonthStartFrom(t, y, m, start) ==
    LET end == start + DaysInMonth(y, m) * TicksPerDay
    IN  IF t < end THEN end
        ELSE NextMonthStartFrom(t, IF m = 12 THEN y + 1 ELSE y,
                                IF m = 12 THEN 1 ELSE m + 1, end)

NextMonthStart(t) == NextMonthStartFrom(t, BaseYear, 1, 0)

\* C12: the period-end timer of a bill is armed for the first instant of the
\* calendar month that follows the bill's created-at (January 1 of the next
\* year for a bill created in December).
C12_TimerAtNextMonthStart ==
    timerRun.phase \in {"armed", "replayed"}
        => timerRun.deadline = NextMonthStart(timerRun.created)

\* C13: a second run of the workflow function over the same history, at
\* another wall-clock time, arms the period-end timer for the same deadline
\* as the first run did.
C13_ReplayArmsSameDeadline ==
    timerRun.phase = "replayed"
        => timerRun.replayDeadline = timerRun.deadline

\* The caller of the last GetBill is not the owner of the bill it named, or
\* the bill does not exist.
NotOwnerOfRepliedBill ==
    \/ reply.call.billID \notin DOMAIN machines
    \/ machines[reply.call.billID].bill.CustomerID # reply.call.customerID

\* C14: while the dispatcher is up, GetBill by a caller who is not the owner
\* returns not-found, whether the bill id does not exist, names a running
\* workflow of another customer or one that has completed.
C14_NonOwnerGetsNotFound ==
    (clientOpen /\ reply.call.op = "GetBill" /\ NotOwnerOfRepliedBill)
        => reply.err = NotFound

\* C15: GetBill, AddLineItem and CloseBill return not-found when the snapshot
\* retrieval found the workflow not running (completed).
C15_NotRunningIsNotFound ==
    (reply.call.op \in {"GetBill", "AddLineItem", "CloseBill"}
        /\ reply.seen = "completed")
        => reply.err = NotFound

\* C16: AddLineItem and CloseBill by the owner, the fetched snapshot being
\* CLOSED, return bad-request and send no signal: no call goes on past a
\* closed snapshot, and the call that ended on one has signalled nothing.
C16_ClosedSnapshotIsBadRequest ==
    /\ call.fetchedStatus # BillStatusClosed
    /\ (reply.call.op \in {"AddLineItem", "CloseBill"}
            /\ reply.call.fetchedStatus = BillStatusClosed)
           => (reply.err = InvalidArgument /\ ~reply.call.signalled)

C16_Witness ==
    /\ reply.call.op = "CloseBill"
    /\ reply.call.fetchedStatus = BillStatusClosed
    /\ reply.err = InvalidArgument
    /\ machines[reply.call.billID].lifecycle = "running"
    /\ machines[reply.call.billID].bill.CustomerID = reply.call.customerID
    /\ machines[reply.call.billID].closeChan = <<>>

\* The last call was CloseBill by the owner and its first fetch returned an
\* OPEN bill of a running workflow; the dispatcher is up.
ClosedAnOpenBill ==
    /\ clientOpen
    /\ reply.call.op = "CloseBill"
    /\ reply.call.fetchedStatus = BillStatusOpen

\* CloseBill sent the signal and returned a CLOSED snapshot.
ReturnedClosedSnapshot ==
    /\ reply.call.signalled
    /\ reply.err = ErrNone
    /\ reply.bill # <<>>
    /\ reply.bill[1].ID = reply.call.billID
    /\ reply.bill[1].Status = BillStatusClosed

\* C17 as stated: CloseBill by the owner on a running OPEN bill sends the
\* close signal and returns a CLOSED snapshot of the bill, not an error,
\* however the call interleaves with the workflow.
C17_CloseReturnsClosedSnapshot ==
    ClosedAnOpenBill => ReturnedClosedSnapshot

\* C17, amended: CloseBill by the owner on a running OPEN bill either sends
\* the close signal and returns a CLOSED snapshot of the bill, or returns an
\* internal error, the workflow having completed before the signal was sent
\* or before the snapshot was fetched again.
C17_CloseReturnsSnapshotOrInternal ==
    ClosedAnOpenBill =>
        \/ ReturnedClosedSnapshot
        \/ /\ reply.err = Internal
           /\ machines[reply.call.billID].lifecycle # "running"

C17_Witness ==
    /\ ClosedAnOpenBill
    /\ reply.call.signalled
    /\ reply.err = Internal
    /\ reply.seen = "completed"
    /\ machines[reply.call.billID].bill.ClosedAt = TimePtr(clock)

\* The bills of a list that pass the status filter.
RECURSIVE WithStatus(_, _)
WithStatus(bills, status) ==
    IF bills = <<>> THEN <<>>
    ELSE (IF status = "" \/ Head(bills).Status = status
          THEN <<Head(bills)>> ELSE <<>>) \o WithStatus(Tail(bills), status)

\* C18: ListBills without a customer id returns the snapshots of all the
\* running workflows whose query succeeded and whose status passes the
\* filter, whoever owns them.
C18_ListWithoutCustomerReturnsAll ==
    (reply.call.op = "ListBills" /\ reply.call.customerID = 0
        /\ reply.err = ErrNone)
        => reply.call.bills = WithStatus(reply.call.queried, reply.call.status)

\* Every bill of the list is of customer c, if one is asked for, and has
\* status s, if one is asked for.
ListRespects(bills, c, s) ==
    \A i \in DOMAIN bills :
        /\ c # 0 => bills[i].CustomerID = c
        /\ s # "" => bills[i].Status = s

\* C19: ListBills with customer id c returns no bill of another customer, and
\* with a status filter s only bills of status s; so for the list being built
\* and for the list returned.
C19_ListRespectsFilters ==
    /\ call.op = "ListBills"
           => ListRespects(call.bills, call.customerID, call.status)
    /\ reply.call.op = "ListBills"
           => ListRespects(reply.call.bills, reply.call.customerID,
                           reply.call.status)

C19_Witness ==
    /\ reply.call.op = "ListBills"
    /\ reply.call.customerID = 1
    /\ reply.call.status = BillStatusClosed
    /\ Len(reply.call.bills) = 1
    /\ Len(machines) = 2
    /\ \E id \in DOMAIN machines :
           /\ machines[id].lifecycle = "running"
           /\ machines[id].bill.CustomerID = 2
           /\ machines[id].bill.Status = BillStatusClosed

\* C20 as stated: CreateBill with a currency other than USD and GEL returns
\* bad-request and starts no workflow; with USD or GEL it starts exactly one
\* workflow, under a fresh bill id.
C20_CreateStartsOneMachine ==
    reply.call.op = "CreateBill" =>
        IF reply.call.currency \notin Currencies
        THEN /\ reply.err = InvalidArgument
             /\ Len(machines) = reply.call.before
        ELSE /\ Len(machines) = reply.call.before + 1
             /\ reply.call.started = <<Len(machines)>>
             /\ machines[Len(machines)].bill.ID = Len(machines)

\* C20, amended: CreateBill with a currency other than USD and GEL returns
\* bad-request and starts no workflow; with USD or GEL it either starts
\* exactly one workflow, under a fresh bill id, or fails to start one and
\* returns an internal error.
C20_CreateStartsOneMachineOrFails ==
    reply.call.op = "CreateBill" =>
        IF reply.call.currency \notin Currencies
        THEN /\ reply.err = InvalidArgument
             /\ Len(machines) = reply.call.before
        ELSE \/ /\ Len(machines) = reply.call.before + 1
                /\ reply.call.started = <<Len(machines)>>
                /\ machines[Len(machines)].bill.ID = Len(machines)
             \/ /\ reply.err = Internal
                /\ reply.call.started = <<>>
                /\ Len(machines) = reply.call.before

C20_Witness ==
    /\ reply.call.op = "CreateBill"
    /\ reply.call.currency = GEL
    /\ reply.err = ErrNone
    /\ reply.call.before = 1
    /\ reply.call.started = <<2>>
    /\ reply.bill = <<machines[2].bill>>
    /\ machines[1].lifecycle = "running"

\* The integer nearest to cents * rate / RateScale, the half going away from
\* zero, for cents >= 0.
NearestCents(cents, rate) == (2 * cents * rate + RateScale) \div (2 * RateScale)

RoundTripDone ==
    /\ moneyRun.op = "ConvertTo"
    /\ moneyRun.step = 2
    /\ moneyRun.arg.rates = Rates
    /\ moneyRun.arg.m.Currency \in Currencies
    /\ moneyRun.arg.targetCurrency \in Currencies \ {moneyRun.arg.m.Currency}

\* What the way forth and back added to the amount, in cents.
RoundTripDrift == moneyRun.res[2].val.cents - moneyRun.arg.m.cents

\* C25 as stated: at the configured rates an amount of at most 10,000.00
\* converted to the other currency and back differs from what it was by at
\* most one cent.
C25_RoundTripWithinOneCent ==
    RoundTripDone => (-1 <= RoundTripDrift /\ RoundTripDrift <= 1)

\* C25, amended: at the configured rates an amount X of at most 10,000.00
\* converted to the other currency and back is in the currency it was in, is
\* at most one cent less than X and at most X / 4000 + 2 cents more.
C25_RoundTripDriftBounded ==
    RoundTripDone =>
        /\ ~moneyRun.res[2].err
        /\ moneyRun.res[2].val.Currency = moneyRun.arg.m.Currency
        /\ -1 <= RoundTripDrift
        /\ 4000 * RoundTripDrift <= moneyRun.arg.m.cents + 8000

\* 6.04 GEL becomes 2.18 USD and comes back as 6.06 GEL.
C25_Witness ==
    /\ RoundTripDone
    /\ moneyRun.arg.m = Money(604, GEL)
    /\ moneyRun.res[1].val = Money(218, USD)
    /\ RoundTripDrift = 2


\* The number a string of digits denotes (a short string).
RECURSIVE DigitsNat(_)
DigitsNat(s) ==
    IF s = <<>> THEN 0
    ELSE 10 * DigitsNat(SubSeq(s, 1, Len(s) - 1)) + DigitVal(s[Len(s)])

\* A short amount string in plain notation: an optional minus sign, digits,
\* and at most one point among or after them.
PlainAmount(s) ==
    LET body == IF s # <<>> /\ s[1] = "-" THEN Tail(s) ELSE s
        points == {i \in 1..Len(body) : body[i] = "."}
    IN  /\ Len(s) <= MaxAmountLen + 1
        /\ Cardinality(points) <= 1
        /\ \A i \in 1..Len(body) : body[i] \in DigitChars \cup {"."}
        /\ \E i \in 1..Len(body) : body[i] \in DigitChars

\* The cents of a plain amount: the amount times 100, rounded half away from
\* zero.
PlainAmountCents(s) ==
    LET neg == s[1] = "-"
        body == IF neg THEN Tail(s) ELSE s
        digits == SelectSeq(body, LAMBDA c : c # ".")
        point == CHOOSE i \in 1..Len(body) + 1 :
                     IF \E j \in 1..Len(body) : body[j] = "."
                     THEN i <= Len(body) /\ body[i] = "."
                     ELSE i = Len(body) + 1
        places == IF point > Len(body) THEN 0 ELSE Len(body) - point
        num == DigitsNat(digits) * 100
    IN  RoundHalfAwayFromZero(IF neg THEN -num ELSE num, Pow10(places))

\* The number an int64 of small magnitude stands for.
Int64Nat(v) ==
    IF Int64IsNegative(v) THEN -BytesNat(Int64Abs(v)) ELSE BytesNat(Int64Abs(v))

\* The cents the five item amounts round to, each on its own.
ItemCentsOf(amount) ==
    CASE amount = <<"0", ".", "0", "1">> -> 1
      [] amount = <<"0", ".", "0", "2">> -> 2
      [] amount = <<"0", ".", "0", "0", "1">> -> 0
      [] amount = <<"0", ".", "0", "0", "5">> -> 1
      [] amount = <<"0", ".", "0", "0", "9">> -> 1

RECURSIVE SumItemCents(_)
SumItemCents(amounts) ==
    IF amounts = <<>> THEN 0
    ELSE ItemCentsOf(Head(amounts)) + SumItemCents(Tail(amounts))

\* C21: the Money constructed from a decimal amount holds the amount times
\* 100 rounded half away from zero (0.005 gives 1, 0.004 and 0.001 give 0,
\* 0.995 gives 100), and items are rounded one by one before they are added:
\* 0.01, 0.02, 0.001, 0.005 and 0.009 add up to 5 cents.
C21_ConstructionRoundsHalfAwayFromZero ==
    /\ (moneyRun.op = "NewFromString" /\ moneyRun.step = 1
            /\ PlainAmount(moneyRun.arg.amount)) =>
           /\ moneyRun.res[1].val.Currency = moneyRun.arg.currency
           /\ Int64Nat(moneyRun.res[1].val.cents)
                  = PlainAmountCents(moneyRun.arg.amount)
    /\ (moneyRun.op = "NewFromString" /\ moneyRun.step = 1) =>
           LET cents == Int64Nat(moneyRun.res[1].val.cents)
               amount == moneyRun.arg.amount
           IN  /\ amount = <<"0", ".", "0", "0", "5">> => cents = 1
               /\ amount = <<"0", ".", "0", "0", "4">> => cents = 0
               /\ amount = <<"0", ".", "0", "0", "1">> => cents = 0
               /\ amount = <<"0", ".", "9", "9", "5">> => cents = 100
    /\ moneyRun.op = "AddItems" =>
           /\ Len(moneyRun.arg) = moneyRun.step
           /\ Int64Nat(moneyRun.res[1].cents) = SumItemCents(moneyRun.arg)
           /\ {moneyRun.arg[i] : i \in 1..Len(moneyRun.arg)} = ItemAmounts
                  /\ moneyRun.step = Cardinality(ItemAmounts)
              => moneyRun.res[1].cents = Int64(5)

\* The five items were constructed and added in the order 0.01, 0.02, 0.001,
\* 0.005, 0.009, and the total is 5 cents.
C21_Witness ==
    /\ moneyRun.op = "AddItems"
    /\ moneyRun.arg = << <<"0", ".", "0", "1">>, <<"0", ".", "0", "2">>,
                         <<"0", ".", "0", "0", "1">>,
                         <<"0", ".", "0", "0", "5">>,
                         <<"0", ".", "0", "0", "9">> >>
    /\ moneyRun.res[1] = Money(Int64(5), USD)

\* The amount a string denotes is below zero.
NegativeAmount(amount) ==
    /\ ~decimalNewFromString(amount).err
    /\ decimalNewFromString(amount).neg
    /\ Normalize(decimalNewFromString(amount).coef) # <<>>

\* C22: NewFromString fails for every amount below zero and for every
\* currency other than USD and GEL; the Money it returns without an error has
\* cents >= 0 and a currency of the two.
C22_ConstructionRejectsNegativeAndUnknown ==
    (moneyRun.op = "NewFromString" /\ moneyRun.step = 1) =>
        /\ NegativeAmount(moneyRun.arg.amount) => moneyRun.res[1].err
        /\ moneyRun.arg.currency \notin Currencies => moneyRun.res[1].err
        /\ ~moneyRun.res[1].err =>
               /\ ~Int64IsNegative(moneyRun.res[1].val.cents)
               /\ moneyRun.res[1].val.Currency \in Currencies


\* The bill the callback of addItemChan leaves after the items of a sequence,
\* in their order.
RECURSIVE HandleItems(_, _)
HandleItems(b, items) ==
    IF items = <<>> THEN b
    ELSE HandleItems(addItemHandlerInt64(b, Head(items)), Tail(items))

\* The orders a sequence of n items can be delivered in.
Orders(n) == {p \in [1..n -> 1..n] : \A i, j \in 1..n : p[i] = p[j] => i = j}

\* The sum of the cents of a sequence of items, as a magnitude.
RECURSIVE SumAmounts(_)
SumAmounts(items) ==
    IF items = <<>> THEN <<>>
    ELSE AddBytes(Head(items).Amount.cents, SumAmounts(Tail(items)), 0)

\* The run handed the bill items in the bill's currency only.
SameCurrencyItems ==
    /\ moneyRun.op = "Add"
    /\ \A i \in 1..Len(moneyRun.arg) :
           moneyRun.arg[i].Amount.Currency = moneyRun.res[1].Currency

\* C23: Money.Add on one currency is commutative and associative and does
\* not round, so the total of an OPEN bill after a multiset of items in its
\* currency is the same for every order of delivery.
C23_TotalIndependentOfOrder ==
    SameCurrencyItems =>
        LET items == moneyRun.arg
            n == Len(items)
            empty == NewBillInt64("bill-123", 456, moneyRun.res[1].Currency, 0)
        IN  /\ \A p \in Orders(n) :
                   HandleItems(empty, [i \in 1..n |-> items[p[i]]]).Total
                       = moneyRun.res[1].Total
            /\ moneyRun.res[1].Total.cents = Low64(SumAmounts(items))
            /\ \A i, j \in 1..n :
                   AddInt64(items[i].Amount, items[j].Amount)
                       = AddInt64(items[j].Amount, items[i].Amount)
            /\ \A i, j, k \in 1..n :
                   AddInt64(AddInt64(items[i].Amount, items[j].Amount).val,
                            items[k].Amount)
                       = AddInt64(items[i].Amount,
                                  AddInt64(items[j].Amount, items[k].Amount).val)

\* Items of 0.01, 1.00 and 0.01 of the bill's currency were handled: the
\* total is 1.02.
C23_Witness ==
    /\ SameCurrencyItems
    /\ moneyRun.step = 3
    /\ moneyRun.arg[1].Amount.cents = Int64(1)
    /\ moneyRun.arg[2].Amount.cents = Int64(100)
    /\ moneyRun.arg[3].Amount.cents = Int64(1)
    /\ moneyRun.res[1].Total.cents = Int64(102)

\* C29: the total of a bill and the amount of each of its items are never
\* below zero, whatever valid non-negative items the bill is handed.
C29_TotalAndItemsNonNegative ==
    moneyRun.op = "Add" =>
        /\ ~Int64IsNegative(moneyRun.res[1].Total.cents)
        /\ \A i \in 1..Len(moneyRun.res[1].LineItems) :
               ~Int64IsNegative(moneyRun.res[1].LineItems[i].Amount.cents)

\* C30: Add of two amounts of one currency returns their exact sum when it
\* fits int64, and an error when it does not.
C30_AddIsExactOrFails ==
    (moneyRun.op = "Add" /\ moneyRun.step >= 1) =>
        LET n == moneyRun.step
            item == moneyRun.arg[n].Amount
            before == HandleItems(NewBillInt64("bill-123", 456,
                                               moneyRun.res[1].Currency, 0),
                                  SubSeq(moneyRun.arg, 1, n - 1)).Total
            exact == Normalize(AddBytes(before.cents, item.cents, 0))
            fits == Len(exact) <= Int64Bytes /\ ~Int64IsNegative(Low64(exact))
            sum == moneyRun.res[2]
        IN  (item.Currency = before.Currency
                /\ ~Int64IsNegative(before.cents)) =>
                IF fits
                THEN ~sum.err /\ sum.val = Money(Low64(exact), before.Currency)
                ELSE sum.err


\* The serialized form of the last run has been parsed.
Parsed ==
    \/ moneyRun.op = "MarshalJSON" /\ moneyRun.step = 2
    \/ moneyRun.op = "UnmarshalJSON" /\ moneyRun.step = 1

\* What the parse of the last run returned.
ParseResult == moneyRun.res[Len(moneyRun.res)]

\* A symbol, at least one digit, a point and two digits.
SymbolAndTwoDecimals(chars, currency) ==
    /\ HasPrefix(chars, Symbol(currency))
    /\ LET amount == TrimPrefix(chars, Symbol(currency))
           n == Len(amount)
       IN  /\ n >= 4
           /\ amount[n - 2] = "."
           /\ \A i \in (1..n) \ {n - 2} : amount[i] \in DigitChars

\* C26: the parse of the serialized form of a valid Money (cents >= 0, USD
\* or GEL) is that Money, and the form is the symbol of the currency and the
\* amount with two decimals.
C26_ParseOfRenderIsIdentity ==
    (moneyRun.op = "MarshalJSON" /\ moneyRun.step = 2
        /\ validateInt64(moneyRun.arg.m)) =>
        /\ moneyRun.res[1].kind = "string"
        /\ SymbolAndTwoDecimals(moneyRun.res[1].chars, moneyRun.arg.m.Currency)
        /\ ~moneyRun.res[2].err
        /\ moneyRun.res[2].val = moneyRun.arg.m

\* The document of the last run is a string that, trimmed, starts with
\* neither symbol.
NoSymbol ==
    /\ moneyRun.arg.data.kind = "string"
    /\ ~HasPrefix(TrimSpace(moneyRun.arg.data.chars), <<"$">>)
    /\ ~HasPrefix(TrimSpace(moneyRun.arg.data.chars), <<"₾">>)

\* C27: the parse of a string that starts with neither $ nor the lari sign
\* fails, whatever the Money that is parsed into held before.
C27_NoSymbolFails ==
    (Parsed /\ NoSymbol) => ParseResult.err

\* The document of the last run is a string with a minus sign before the
\* symbol, or between the symbol and a numeric value.
MinusAtSymbol ==
    LET s == TrimSpace(moneyRun.arg.data.chars)
        afterMinus == TrimSpace(Tail(s))
        afterSymbol == TrimSpace(Tail(s))
    IN  /\ moneyRun.arg.data.kind = "string"
        /\ Len(s) >= 3
        /\ \/ /\ s[1] = "-"
              /\ afterMinus # <<>>
              /\ afterMinus[1] \in {"$", "₾"}
              /\ ~decimalNewFromString(TrimSpace(Tail(afterMinus))).err
           \/ /\ s[1] \in {"$", "₾"}
              /\ afterSymbol # <<>>
              /\ afterSymbol[1] = "-"
              /\ ~decimalNewFromString(Tail(afterSymbol)).err

\* C28: the parse of a string with a minus sign before the symbol or between
\* the symbol and the digits fails, whatever the number after the minus
\* sign.
C28_MinusSignFails ==
    (Parsed /\ MinusAtSymbol) => ParseResult.err

\* A close event and an add-item event are both pending at the Select of an
\* OPEN bill, and the close event was delivered at an earlier instant.
CloseDeliveredBeforeItem ==
    /\ pc = "select"
    /\ bill.Status = BillStatusOpen
    /\ closeChan # <<>>
    /\ addItemChan # <<>>
    /\ Head(closeChan).ClosedAt < Head(addItemChan).CreatedAt

\* C31: events are handled in the order of their delivery across the
\* channels: when a close event delivered before an add-item event is
\* pending together with it at a Select, no step of the loop appends the
\* item.
C31_CloseHandledBeforeLaterItem ==
    [][CloseDeliveredBeforeItem => bill'.LineItems = bill.LineItems]_vars

\* A step in which Select runs the close callback on an OPEN bill.
CloseHandledOnOpen ==
    /\ pc = "select"
    /\ bill.Status = BillStatusOpen
    /\ closeChan # <<>>
    /\ closeChan' = Tail(closeChan)

\* A step in which Select runs the timer callback on an OPEN bill: the bill
\* is closed and no close event is consumed.
TimerHandledOnOpen ==
    /\ pc = "select"
    /\ bill.Status = BillStatusOpen
    /\ closeChan' = closeChan
    /\ closingHandled'
    /\ bill' # bill

\* C34: a close event handled on an OPEN bill sets closed-at to the
\* timestamp the event carries; the timer fire handled on an OPEN bill sets
\* closed-at to the clock's time at that moment.
C34_ClosedAtFromEventOrClock ==
    [][/\ CloseHandledOnOpen =>
              /\ bill'.Status = BillStatusClosed
              /\ bill'.ClosedAt = TimePtr(Head(closeChan).ClosedAt)
       /\ TimerHandledOnOpen =>
              /\ bill'.Status = BillStatusClosed
              /\ bill'.ClosedAt = TimePtr(clock)]_vars

\* A bill closed by a close event that was sent after the bill's creation
\* and handled at a later instant than it was sent.
C34_Witness ==
    /\ bill.Status = BillStatusClosed
    /\ bill.ClosedAt # NilTime
    /\ bill.CreatedAt < bill.ClosedAt[1]
    /\ bill.ClosedAt[1] < clock
    /\ closesSent > 0

\* The fields of the bill that identify it keep their values in this step.
IdentityUnchanged ==
    /\ bill'.ID = bill.ID
    /\ bill'.CustomerID = bill.CustomerID
    /\ bill'.Currency = bill.Currency
    /\ bill'.CreatedAt = bill.CreatedAt

\* C39: the workflow starts with the id, customer id and currency of its
\* parameters and created-at = the clock, OPEN, without closed-at, with no
\* line items and a zero total in the declared currency; no step of the
\* loop changes id, customer id, currency or created-at.
C39_IdentityFixedFromStart ==
    /\ bill.ID \in BillIDs
    /\ bill.CustomerID \in CustomerIDs
    /\ bill.Currency \in Currencies
    /\ bill.CreatedAt = clock
    /\ bill.Status = BillStatusOpen
    /\ bill.ClosedAt = NilTime
    /\ bill.LineItems = <<>>
    /\ bill.Total = Money(0, bill.Currency)
    /\ [][IdentityUnchanged]_vars

\* A GEL bill on which add-item events of both currencies were handled and
\* which the timer closed, at a later instant than it was created.
C39_Witness ==
    /\ bill.Currency = GEL
    /\ bill.Status = BillStatusClosed
    /\ closesSent = 0
    /\ Len(bill.LineItems) >= 2
    /\ \E i, j \in 1..Len(bill.LineItems) :
           bill.LineItems[i].Amount.Currency # bill.LineItems[j].Amount.Currency
    /\ bill.CreatedAt < clock

\* A step in which the add-item callback runs on an OPEN bill.
ItemHandledOnOpen ==
    /\ moneyRun.op = "items"
    /\ moneyRun.res[1].Status = BillStatusOpen
    /\ moneyRun'.step = moneyRun.step + 1
    /\ moneyRun'.arg # <<>>

C36_TimerFiresBeforeExecutionTimeout ==
    timerRun.phase \in {"armed", "replayed"} =>
        timerRun.deadline < timerRun.created + WorkflowExecutionTimeout

\* C32: the snapshot a query returns, whenever the query is served (between
\* two callbacks, while the notifier activity is in flight, or after the
\* loop has ended), has a total equal to the sum of its line items and a
\* closed-at exactly when its status is CLOSED.
C32_QuerySnapshotConsistent ==
    LET snapshot == QueryGetBill(bill)
    IN  /\ snapshot.Total.cents = SumCents(snapshot.LineItems)
        /\ (snapshot.Status = BillStatusClosed) <=> (snapshot.ClosedAt # NilTime)

\* The last call was a well-formed AddLineItem or CloseBill on an existing
\* bill by a caller who is not its owner; the dispatcher is up.
NonOwnerMutation ==
    /\ clientOpen
    /\ reply.call.op \in {"AddLineItem", "CloseBill"}
    /\ reply.call.billID \in DOMAIN machines
    /\ machines[reply.call.billID].bill.CustomerID # reply.call.customerID
    /\ reply.call.op = "AddLineItem" =>
           AddLineItemParamsValidate(reply.call.amount,
                                     reply.call.currency) = ErrNone

\* C38: AddLineItem or CloseBill by a caller who is not the bill's owner
\* sends no event to the workflow and returns not-found.
C38_NonOwnerSendsNothing ==
    NonOwnerMutation => (reply.err = NotFound /\ ~reply.call.signalled)

\* The last call was AddLineItem and it returned a snapshot, not an error.
AddLineItemReturnedSnapshot ==
    /\ reply.call.op = "AddLineItem"
    /\ reply.err = ErrNone

\* The snapshot the last call returned lists the item the call sent.
SnapshotHasItem ==
    \E i \in 1..Len(reply.bill[1].LineItems) :
        reply.bill[1].LineItems[i] = reply.call.lineItem[1]

\* C37 (as claimed): an AddLineItem call that returns a snapshot has had its
\* item appended: the snapshot lists the item, with the converted amount,
\* however the call interleaves with CloseBill calls and the timer.
C37_ReturnedSnapshotHasItem ==
    AddLineItemReturnedSnapshot => SnapshotHasItem

\* C37 (amended): an AddLineItem call that returns a snapshot has sent its
\* item, in the bill's currency, to the workflow; the snapshot lists the
\* item, or it is CLOSED: the bill was closed after the call fetched it
\* OPEN and the workflow dropped the item.
C37_SnapshotHasItemOrIsClosed ==
    AddLineItemReturnedSnapshot =>
        /\ reply.call.signalled
        /\ reply.call.fetchedStatus = BillStatusOpen
        /\ reply.call.lineItem[1].Amount.Currency = reply.bill[1].Currency
        /\ \/ SnapshotHasItem
           \/ reply.bill[1].Status = BillStatusClosed

\* An AddLineItem call of an amount in another currency than the bill's
\* returned a CLOSED snapshot without its item: the timer closed the bill
\* between the call's fetch and the handling of its event.
C37_Witness ==
    /\ AddLineItemReturnedSnapshot
    /\ reply.call.currency # reply.bill[1].Currency
    /\ reply.bill[1].Status = BillStatusClosed
    /\ ~SnapshotHasItem

\* C33: the add-item event AddLineItem sends carries an amount in the
\* currency of the bill it is sent to and of cents >= 0; a request that
\* sends no event is answered bad-request.
C33_EventInBillCurrencyNonNegative ==
    (moneyRun.op = "AddLineItem" /\ moneyRun.step = 1) =>
        IF moneyRun.res.event = <<>>
        THEN moneyRun.res.err = InvalidArgument
        ELSE /\ moneyRun.res.err = ErrNone
             /\ moneyRun.res.event[1].Currency = moneyRun.arg.billCurrency
             /\ ~Int64IsNegative(moneyRun.res.event[1].cents)
====
